---- MODULE Spec2Model ----
(***************************************************************************)
(* A model of the blugnu/msgpack streaming encoder: the Encoder session    *)
(* (sink + sticky error), the primitive writer, the header writers, the    *)
(* scalar encoders, the container encoders and the session controls.       *)
(*                                                                         *)
(* Integers are 64 bits wide in the source, wider than TLC's integers, so  *)
(* an integer value is kept as its 64-bit two's complement pattern in four *)
(* 16-bit limbs (most significant first) together with its sign.           *)
(***************************************************************************)
EXTENDS Integers, Sequences, FiniteSets, TLC

VARIABLES
    enc,        \* the caller's Encoder value: [out |-> sink, err |-> sticky error]
    sink,       \* sink |-> the bytes it has accepted, in order
    used,       \* the number of Write calls the sinks have received
    stack,      \* the open Using calls, innermost last
    call,       \* what the last completed operation did and returned
    panicking,  \* TRUE while a panic unwinds the call stack
    in,         \* the argument drawn for the single-call specifications
    sw,         \* the pool of String: the pooled Encoders that are idle
    heap,       \* the pooled Encoders made so far: [buf |-> bytes, err |-> error]
    gs          \* the goroutines that call String

vars == <<enc, sink, used, stack, call, panicking, in, sw, heap, gs>>

-----------------------------------------------------------------------------
(* Bounds of the model *)

\* an encode call is made only while the sinks have received fewer Write calls
MaxWrites == 1
\* Using calls nest at most this deep
MaxDepth == 2
\* a slice or map handed to a container encoder has at most this many items
MaxItems == 3
\* the integer inputs lie within this distance of a format boundary
Delta == 1
\* the goroutines that call String concurrently
MaxGo == 2
\* the calls of String the goroutines make in all
MaxCalls == 3
\* the Write calls the sinks receive from the fns of nested Using calls
MaxNested == 3

-----------------------------------------------------------------------------
(* Integer values: [neg |-> sign, w |-> <<l3, l2, l1, l0>>] *)

Radix == 256 * 256

\* the value of a small literal n, -2^31 <= n < 2^31
I(n) ==
    IF n >= 0
    THEN [neg |-> FALSE, w |-> <<0, 0, n \div Radix, n % Radix>>]
    ELSE LET j == (n + 2147483647) + 1   \* the low 31 bits of the pattern
         IN [neg |-> TRUE,
             w |-> <<Radix - 1, Radix - 1, (Radix \div 2) + (j \div Radix), j % Radix>>]

\* lexicographic order of two limb tuples, from limb k on
RECURSIVE LimbLt(_, _, _)
LimbLt(a, b, k) ==
    IF k > 4 THEN FALSE
    ELSE IF a[k] # b[k] THEN a[k] < b[k]
    ELSE LimbLt(a, b, k + 1)

\* a < b, a <= b on integer values
Lt(a, b) ==
    IF a.neg # b.neg THEN a.neg ELSE LimbLt(a.w, b.w, 1)
Le(a, b) == a = b \/ Lt(a, b)

\* v + d for a small d >= 0, carrying through the limbs (wraps at 2^64)
RECURSIVE AddLimbs(_, _, _)
AddLimbs(w, d, k) ==
    IF k = 0 \/ d = 0 THEN w
    ELSE LET s == w[k] + d
         IN AddLimbs([w EXCEPT ![k] = s % Radix], s \div Radix, k - 1)

\* v - d for a small d >= 0, borrowing through the limbs (wraps at 2^64)
RECURSIVE SubLimbs(_, _, _)
SubLimbs(w, d, k) ==
    IF k = 0 \/ d = 0 THEN w
    ELSE IF w[k] >= d THEN [w EXCEPT ![k] = w[k] - d]
    ELSE SubLimbs([w EXCEPT ![k] = (w[k] + Radix) - d], 1, k - 1)

\* the Go integer types and their widths in bytes
SignedTypes == {"int8", "int16", "int32", "int64", "int"}
UnsignedTypes == {"uint8", "uint16", "uint32", "uint64", "uint"}
IntTypes == SignedTypes \cup UnsignedTypes
FloatTypes == {"float32", "float64"}

Width(t) ==
    CASE t \in {"int8", "uint8"} -> 1
      [] t \in {"int16", "uint16"} -> 2
      [] t \in {"int32", "uint32", "float32"} -> 4
      [] OTHER -> 8

\* the Go conversion T(v): keep the low Width(t) bytes of the pattern and
\* extend them by the signedness of t
Conv(t, v) ==
    LET n == Width(t)
        lo == v.w[4]
        b0 == lo % 256
        top == CASE n = 1 -> b0 >= 128
                 [] n = 2 -> lo >= Radix \div 2
                 [] n = 4 -> v.w[3] >= Radix \div 2
                 [] OTHER -> v.w[1] >= Radix \div 2
        ng == t \in SignedTypes /\ top
        ext == IF ng THEN Radix - 1 ELSE 0
    IN [neg |-> ng,
        w |-> CASE n = 1 -> <<ext, ext, ext, IF ng THEN (Radix - 256) + b0 ELSE b0>>
                [] n = 2 -> <<ext, ext, ext, lo>>
                [] n = 4 -> <<ext, ext, v.w[3], lo>>
                [] OTHER -> v.w]

\* byte(v >> (8 * j)): byte j of the pattern, j = 0 the least significant
ByteAt(v, j) ==
    LET l == v.w[4 - (j \div 2)]
    IN IF j % 2 = 1 THEN l \div 256 ELSE l % 256

\* the n low bytes of v, most significant first
BigEndian(v, n) == [k \in 1..n |-> ByteAt(v, n - k)]

-----------------------------------------------------------------------------
(* Constants: types.go, errors.go and Go's math package *)

minFixedInt == -32
maxFixedInt == 127
maxFixedUint == 127

atomNil == 192          \* 0xc0
atomFalse == 194        \* 0xc2
atomTrue == 195         \* 0xc3
atomEmptyArray == 144   \* 0x90
atomEmptyMap == 128     \* 0x80

maskFixArray == 144     \* 0x90
maskFixMap == 128       \* 0x80
maskFixString == 160    \* 0xa0

typeArray16 == 220      \* 0xdc
typeArray32 == 221      \* 0xdd
typeBin8 == 196         \* 0xc4
typeBin16 == 197        \* 0xc5
typeBin32 == 198        \* 0xc6
typeFloat32 == 202      \* 0xca
typeFloat64 == 203      \* 0xcb
typeMap16 == 222        \* 0xde
typeMap32 == 223        \* 0xdf
typeInt8 == 208         \* 0xd0
typeInt16 == 209        \* 0xd1
typeInt32 == 210        \* 0xd2
typeInt64 == 211        \* 0xd3
typeUint8 == 204        \* 0xcc
typeUint16 == 204       \* 0xcc
typeUint32 == 205       \* 0xcd
typeUint64 == 206       \* 0xce
typeString8 == 217      \* 0xd9
typeString16 == 218     \* 0xda
typeString32 == 219     \* 0xdb

MinInt8 == I(-128)
MinInt16 == I(-32768)
MinInt32 == I((-2147483647) - 1)
MaxUint8 == I(255)
MaxUint16 == I(65535)
MaxUint32 == [neg |-> FALSE, w |-> <<0, 0, Radix - 1, Radix - 1>>]

\* error values: nil, the errors a sink or a callback may return, and the
\* two panics of the package
NoErr == "nil"
Errs == {"e1", "e2"}
ErrUnsupportedType == "panic: unsupported type"
ErrValueOutOfRange == "panic: value out of range"
Panics == {ErrUnsupportedType, ErrValueOutOfRange}

-----------------------------------------------------------------------------
(* The sinks (io.Writer) *)

Sinks == {"buf", "other"}

\* what a sink answers to one Write call
Outcomes == {"ok"} \cup Errs
\* the answers to the next k Write calls; a failing sink keeps to one error
Plans(k) == {p \in [1..k -> Outcomes] : \E x \in Errs : \A j \in 1..k : p[j] \in {"ok", x}}

\* The world an operation runs in: the sinks' contents, the answers the sinks
\* will give to the next Write calls, and a log of the calls made so far:
\* n the number of Write calls, rej the first error a sink returned, late the
\* number of Write calls made after that error, acc the bytes accepted, calls
\* the number of item-encoder calls.
World(plan) ==
    [sink |-> sink, plan |-> plan, n |-> 0, rej |-> NoErr, late |-> 0, acc |-> <<>>,
     calls |-> 0]

\* io.Writer.Write(p) on sink s: [w |-> the world after, r |-> the error]
SinkWrite(wd, s, p) ==
    LET o == Head(wd.plan)
    IN [w |-> [sink |-> IF o = "ok" THEN [wd.sink EXCEPT ![s] = @ \o p] ELSE wd.sink,
               plan |-> Tail(wd.plan),
               n |-> wd.n + 1,
               rej |-> IF wd.rej = NoErr /\ o # "ok" THEN o ELSE wd.rej,
               late |-> IF wd.rej # NoErr THEN wd.late + 1 ELSE wd.late,
               acc |-> IF o = "ok" THEN wd.acc \o p ELSE wd.acc,
               calls |-> wd.calls],
        r |-> IF o = "ok" THEN NoErr ELSE o]

-----------------------------------------------------------------------------
(* The primitive writer *)

\* a value of dynamic type t handed to Write or Encode
Val(t, v) == [t |-> t, v |-> v]
Byte(b) == Val("uint8", I(b))

WriteTypes == {"uint8", "bytes", "int8", "int16", "uint16", "int32", "uint32",
               "int64", "uint64", "float32", "float64"}

\* Write without the check of the sticky error on entry
Write_Unchecked(e, wd, b) ==
    IF b.t \notin WriteTypes THEN [w |-> wd, r |-> ErrUnsupportedType, e |-> e]
    ELSE LET p == IF b.t = "bytes" THEN b.v ELSE BigEndian(b.v, Width(b.t))
             s == SinkWrite(wd, e.out, p)
         IN [w |-> s.w, r |-> s.r, e |-> [e EXCEPT !.err = s.r]]

\* Write with the type switch before the check of the sticky error
Write_TypeFirst(e, wd, b) ==
    IF b.t \notin WriteTypes THEN [w |-> wd, r |-> ErrUnsupportedType, e |-> e]
    ELSE IF e.err # NoErr THEN [w |-> wd, r |-> e.err, e |-> e]
    ELSE LET p == IF b.t = "bytes" THEN b.v ELSE BigEndian(b.v, Width(b.t))
             s == SinkWrite(wd, e.out, p)
         IN [w |-> s.w, r |-> s.r, e |-> [e EXCEPT !.err = s.r]]

\* Write with the bytes of a number least significant first
Write_LittleEndian(e, wd, b) ==
    IF e.err # NoErr THEN [w |-> wd, r |-> e.err, e |-> e]
    ELSE IF b.t \notin WriteTypes THEN [w |-> wd, r |-> ErrUnsupportedType, e |-> e]
    ELSE LET p == IF b.t = "bytes" THEN b.v
                  ELSE [k \in 1..Width(b.t) |-> ByteAt(b.v, k - 1)]
             s == SinkWrite(wd, e.out, p)
         IN [w |-> s.w, r |-> s.r, e |-> [e EXCEPT !.err = s.r]]

\* Encoder.Write, a value-receiver method: e is the callee's copy of the
\* Encoder.  Returns [w |-> world, r |-> returned error or panic, e |-> the
\* callee's copy when it returns]; the copy is discarded by every caller.
Write(e, wd, b) ==
    IF e.err # NoErr THEN [w |-> wd, r |-> e.err, e |-> e]
    ELSE IF b.t \notin WriteTypes THEN [w |-> wd, r |-> ErrUnsupportedType, e |-> e]
    ELSE LET p == IF b.t = "bytes" THEN b.v ELSE BigEndian(b.v, Width(b.t))
             s == SinkWrite(wd, e.out, p)
         IN [w |-> s.w, r |-> s.r, e |-> [e EXCEPT !.err = s.r]]

-----------------------------------------------------------------------------
(* The integer family *)

\* EncodeFixedInt with the sticky error looked at before the range
EncodeFixedInt_StickyFirst(e, wd, i) ==
    IF e.err # NoErr THEN [w |-> wd, r |-> e.err, e |-> e]
    ELSE IF Lt(i, I(minFixedInt)) \/ Lt(I(maxFixedInt), i)
    THEN [w |-> wd, r |-> ErrValueOutOfRange, e |-> e]
    ELSE Write(e, wd, Val("uint8", Conv("uint8", i)))

EncodeFixedInt(e, wd, i) ==
    IF Lt(i, I(minFixedInt)) \/ Lt(I(maxFixedInt), i)
    THEN [w |-> wd, r |-> ErrValueOutOfRange, e |-> e]
    ELSE Write(e, wd, Val("uint8", Conv("uint8", i)))

EncodeInt8(e, wd, i) ==
    IF Lt(i, I(minFixedInt))
    THEN Write(e, Write(e, wd, Byte(typeInt8)).w, Val("int8", i))
    ELSE Write(e, wd, Val("uint8", Conv("uint8", i)))

EncodeInt16(e, wd, i) ==
    CASE Lt(i, MinInt8) ->
            Write(e, Write(e, wd, Byte(typeInt16)).w, Val("int16", Conv("int16", i)))
      [] ~Lt(i, MinInt8) /\ Lt(i, I(minFixedInt)) ->
            Write(e, Write(e, wd, Byte(typeInt8)).w, Val("int8", Conv("int8", i)))
      [] ~Lt(i, I(minFixedInt)) /\ Le(i, I(maxFixedInt)) ->
            Write(e, wd, Val("uint8", Conv("uint8", i)))
      [] Lt(I(maxFixedInt), i) /\ Le(i, MaxUint8) ->
            Write(e, Write(e, wd, Byte(typeUint8)).w, Val("uint8", Conv("uint8", i)))
      [] OTHER ->
            Write(e, Write(e, wd, Byte(typeInt16)).w, Val("int16", i))

\* EncodeInt32 without its uint16 case: 256..65535 fall to the int32 form
EncodeInt32_NoUint16(e, wd, i) ==
    CASE Lt(i, MinInt16) ->
            Write(e, Write(e, wd, Byte(typeInt32)).w, Val("int32", Conv("int32", i)))
      [] ~Lt(i, MinInt16) /\ Lt(i, MinInt8) ->
            Write(e, Write(e, wd, Byte(typeInt16)).w, Val("int16", Conv("int16", i)))
      [] ~Lt(i, MinInt8) /\ Lt(i, I(minFixedInt)) ->
            Write(e, Write(e, wd, Byte(typeInt8)).w, Val("int8", Conv("int8", i)))
      [] ~Lt(i, I(minFixedInt)) /\ Le(i, I(maxFixedInt)) ->
            Write(e, wd, Val("uint8", Conv("uint8", i)))
      [] Lt(I(maxFixedInt), i) /\ Le(i, MaxUint8) ->
            Write(e, Write(e, wd, Byte(typeUint8)).w, Val("uint8", Conv("uint8", i)))
      [] OTHER ->
            Write(e, Write(e, wd, Byte(typeInt32)).w, Val("int32", i))

EncodeInt32(e, wd, i) ==
    CASE Lt(i, MinInt16) ->
            Write(e, Write(e, wd, Byte(typeInt32)).w, Val("int32", Conv("int32", i)))
      [] ~Lt(i, MinInt16) /\ Lt(i, MinInt8) ->
            Write(e, Write(e, wd, Byte(typeInt16)).w, Val("int16", Conv("int16", i)))
      [] ~Lt(i, MinInt8) /\ Lt(i, I(minFixedInt)) ->
            Write(e, Write(e, wd, Byte(typeInt8)).w, Val("int8", Conv("int8", i)))
      [] ~Lt(i, I(minFixedInt)) /\ Le(i, I(maxFixedInt)) ->
            Write(e, wd, Val("uint8", Conv("uint8", i)))
      [] Lt(I(maxFixedInt), i) /\ Le(i, MaxUint8) ->
            Write(e, Write(e, wd, Byte(typeUint8)).w, Val("uint8", Conv("uint8", i)))
      [] Lt(MaxUint8, i) /\ Le(i, MaxUint16) ->
            Write(e, Write(e, wd, Byte(typeUint16)).w, Val("uint16", Conv("uint16", i)))
      [] OTHER ->
            Write(e, Write(e, wd, Byte(typeInt32)).w, Val("int32", i))

EncodeInt64(e, wd, i) ==
    CASE Lt(i, MinInt32) ->
            Write(e, Write(e, wd, Byte(typeInt64)).w, Val("int64", i))
      [] ~Lt(i, MinInt32) /\ Lt(i, MinInt16) ->
            Write(e, Write(e, wd, Byte(typeInt32)).w, Val("int32", Conv("int32", i)))
      [] ~Lt(i, MinInt16) /\ Lt(i, MinInt8) ->
            Write(e, Write(e, wd, Byte(typeInt16)).w, Val("int16", Conv("int16", i)))
      [] ~Lt(i, MinInt8) /\ Lt(i, I(minFixedInt)) ->
            Write(e, Write(e, wd, Byte(typeInt8)).w, Val("int8", Conv("int8", i)))
      [] ~Lt(i, I(minFixedInt)) /\ Le(i, I(maxFixedInt)) ->
            Write(e, wd, Val("uint8", Conv("uint8", i)))
      [] Lt(I(maxFixedInt), i) /\ Le(i, MaxUint8) ->
            Write(e, Write(e, wd, Byte(typeUint8)).w, Val("uint8", Conv("uint8", i)))
      [] Lt(MaxUint8, i) /\ Le(i, MaxUint16) ->
            Write(e, Write(e, wd, Byte(typeUint16)).w, Val("uint16", Conv("uint16", i)))
      [] Lt(MaxUint16, i) /\ Le(i, MaxUint32) ->
            Write(e, Write(e, wd, Byte(typeUint32)).w, Val("uint32", Conv("uint32", i)))
      [] OTHER ->
            Write(e, Write(e, wd, Byte(typeUint64)).w, Val("int64", i))

EncodeUint8(e, wd, i) ==
    IF Le(i, I(maxFixedUint))
    THEN Write(e, wd, Val("uint8", Conv("uint8", i)))
    ELSE Write(e, Write(e, wd, Byte(typeUint8)).w, Val("uint8", i))

EncodeUint16(e, wd, i) ==
    CASE Le(i, I(maxFixedUint)) ->
            Write(e, wd, Val("uint8", Conv("uint8", i)))
      [] Lt(I(maxFixedUint), i) /\ Le(i, MaxUint8) ->
            Write(e, Write(e, wd, Byte(typeUint8)).w, Val("uint8", Conv("uint8", i)))
      [] OTHER ->
            Write(e, Write(e, wd, Byte(typeUint16)).w, Val("uint16", i))

EncodeUint32(e, wd, i) ==
    CASE Le(i, I(maxFixedUint)) ->
            Write(e, wd, Val("uint8", Conv("uint8", i)))
      [] Lt(I(maxFixedUint), i) /\ Le(i, MaxUint8) ->
            Write(e, Write(e, wd, Byte(typeUint8)).w, Val("uint8", Conv("uint8", i)))
      [] Lt(MaxUint8, i) /\ Le(i, MaxUint16) ->
            Write(e, Write(e, wd, Byte(typeUint16)).w, Val("uint16", Conv("uint16", i)))
      [] OTHER ->
            Write(e, Write(e, wd, Byte(typeUint32)).w, Val("uint32", i))

EncodeUint64(e, wd, i) ==
    CASE Le(i, I(maxFixedUint)) ->
            Write(e, wd, Val("uint8", Conv("uint8", i)))
      [] Lt(I(maxFixedUint), i) /\ Le(i, MaxUint8) ->
            Write(e, Write(e, wd, Byte(typeUint8)).w, Val("uint8", Conv("uint8", i)))
      [] Lt(MaxUint8, i) /\ Le(i, MaxUint16) ->
            Write(e, Write(e, wd, Byte(typeUint16)).w, Val("uint16", Conv("uint16", i)))
      [] Lt(MaxUint16, i) /\ Le(i, MaxUint32) ->
            Write(e, Write(e, wd, Byte(typeUint32)).w, Val("uint32", Conv("uint32", i)))
      [] OTHER ->
            Write(e, Write(e, wd, Byte(typeUint64)).w, Val("uint64", i))

\* int is 64 bits wide (the comparison with math.MaxUint32 compiles on no
\* narrower platform)
EncodeInt(e, wd, i) ==
    CASE Lt(i, MinInt32) ->
            Write(e, Write(e, wd, Byte(typeInt64)).w, Val("int64", Conv("int64", i)))
      [] ~Lt(i, MinInt32) /\ Lt(i, MinInt16) ->
            Write(e, Write(e, wd, Byte(typeInt32)).w, Val("int32", Conv("int32", i)))
      [] ~Lt(i, MinInt16) /\ Lt(i, MinInt8) ->
            Write(e, Write(e, wd, Byte(typeInt16)).w, Val("int16", Conv("int16", i)))
      [] ~Lt(i, MinInt8) /\ Lt(i, I(minFixedInt)) ->
            Write(e, Write(e, wd, Byte(typeInt8)).w, Val("int8", Conv("int8", i)))
      [] ~Lt(i, I(minFixedInt)) /\ Le(i, I(maxFixedInt)) ->
            Write(e, wd, Val("uint8", Conv("uint8", i)))
      [] Lt(I(maxFixedInt), i) /\ Le(i, MaxUint8) ->
            Write(e, Write(e, wd, Byte(typeUint8)).w, Val("uint8", Conv("uint8", i)))
      [] Lt(MaxUint8, i) /\ Le(i, MaxUint16) ->
            Write(e, Write(e, wd, Byte(typeUint16)).w, Val("uint16", Conv("uint16", i)))
      [] Lt(MaxUint16, i) /\ Le(i, MaxUint32) ->
            Write(e, Write(e, wd, Byte(typeUint32)).w, Val("uint32", Conv("uint32", i)))
      [] OTHER ->
            Write(e, Write(e, wd, Byte(typeUint64)).w, Val("int64", Conv("int64", i)))

EncodeUint(e, wd, i) ==
    CASE Le(i, I(maxFixedUint)) ->
            Write(e, wd, Val("uint8", Conv("uint8", i)))
      [] Lt(I(maxFixedUint), i) /\ Le(i, MaxUint8) ->
            Write(e, Write(e, wd, Byte(typeUint8)).w, Val("uint8", Conv("uint8", i)))
      [] Lt(MaxUint8, i) /\ Le(i, MaxUint16) ->
            Write(e, Write(e, wd, Byte(typeUint16)).w, Val("uint16", Conv("uint16", i)))
      [] Lt(MaxUint16, i) /\ Le(i, MaxUint32) ->
            Write(e, Write(e, wd, Byte(typeUint32)).w, Val("uint32", Conv("uint32", i)))
      [] OTHER ->
            Write(e, Write(e, wd, Byte(typeUint64)).w, Val("uint64", Conv("uint64", i)))

-----------------------------------------------------------------------------
(* The header writers *)

\* a | b on bytes
RECURSIVE BitOr(_, _)
BitOr(a, b) ==
    IF a = 0 THEN b
    ELSE IF b = 0 THEN a
    ELSE 2 * BitOr(a \div 2, b \div 2) + (IF a % 2 = 1 \/ b % 2 = 1 THEN 1 ELSE 0)

\* WriteArrayHeader with the fixed form kept for one length too many
WriteArrayHeader_Fix16(e, wd, len) ==
    LET w1 == CASE len = I(0) ->
                    Write(e, wd, Byte(atomEmptyArray)).w
                [] len # I(0) /\ Le(len, I(16)) ->
                    Write(e, wd, Byte(BitOr(maskFixArray, ByteAt(len, 0)))).w
                [] ~Le(len, I(16)) /\ Lt(len, I(65536)) ->
                    Write(e, Write(e, wd, Byte(typeArray16)).w, Val("uint16", Conv("uint16", len))).w
                [] OTHER ->
                    Write(e, Write(e, wd, Byte(typeArray32)).w, Val("uint32", Conv("uint32", len))).w
    IN [w |-> w1, r |-> e.err, e |-> e]

\* the value returned is the receiver copy's own err field, which the Write
\* calls of the method do not reach
WriteArrayHeader(e, wd, len) ==
    LET w1 == CASE len = I(0) ->
                    Write(e, wd, Byte(atomEmptyArray)).w
                [] len # I(0) /\ Lt(len, I(16)) ->
                    Write(e, wd, Byte(BitOr(maskFixArray, ByteAt(len, 0)))).w
                [] ~Lt(len, I(16)) /\ Lt(len, I(65536)) ->
                    Write(e, Write(e, wd, Byte(typeArray16)).w, Val("uint16", Conv("uint16", len))).w
                [] OTHER ->
                    Write(e, Write(e, wd, Byte(typeArray32)).w, Val("uint32", Conv("uint32", len))).w
    IN [w |-> w1, r |-> e.err, e |-> e]

WriteMapHeader(e, wd, n) ==
    LET w1 == CASE n = I(0) ->
                    Write(e, wd, Byte(atomEmptyMap)).w
                [] n # I(0) /\ Lt(n, I(16)) ->
                    Write(e, wd, Byte(BitOr(maskFixMap, ByteAt(n, 0)))).w
                [] ~Lt(n, I(16)) /\ Lt(n, I(65536)) ->
                    Write(e, Write(e, wd, Byte(typeMap16)).w, Val("uint16", Conv("uint16", n))).w
                [] OTHER ->
                    Write(e, Write(e, wd, Byte(typeMap32)).w, Val("uint32", Conv("uint32", n))).w
    IN [w |-> w1, r |-> e.err, e |-> e]

\* WriteStringHeader without its 8-bit tier
WriteStringHeader_NoStr8(e, wd, len) ==
    LET w1 == CASE Lt(len, I(32)) ->
                    Write(e, wd, Byte(BitOr(maskFixString, ByteAt(len, 0)))).w
                [] ~Lt(len, I(32)) /\ Lt(len, I(65536)) ->
                    Write(e, Write(e, wd, Byte(typeString16)).w, Val("uint16", Conv("uint16", len))).w
                [] OTHER ->
                    Write(e, Write(e, wd, Byte(typeString32)).w, Val("uint32", Conv("uint32", len))).w
    IN [w |-> w1, r |-> e.err, e |-> e]

WriteStringHeader(e, wd, len) ==
    LET w1 == CASE Lt(len, I(32)) ->
                    Write(e, wd, Byte(BitOr(maskFixString, ByteAt(len, 0)))).w
                [] ~Lt(len, I(32)) /\ Lt(len, I(256)) ->
                    Write(e, Write(e, wd, Byte(typeString8)).w, Val("uint8", Conv("uint8", len))).w
                [] ~Lt(len, I(256)) /\ Lt(len, I(65536)) ->
                    Write(e, Write(e, wd, Byte(typeString16)).w, Val("uint16", Conv("uint16", len))).w
                [] OTHER ->
                    Write(e, Write(e, wd, Byte(typeString32)).w, Val("uint32", Conv("uint32", len))).w
    IN [w |-> w1, r |-> e.err, e |-> e]

-----------------------------------------------------------------------------
(* The scalar encoders *)

EncodeBool(e, wd, b) ==
    IF b THEN Write(e, wd, Byte(atomTrue)) ELSE Write(e, wd, Byte(atomFalse))

\* EncodeBytes with the empty slice taken for nil
EncodeBytes_EmptyIsNil(e, wd, b) ==
    IF b.isnil \/ Len(b.b) = 0 THEN Write(e, wd, Byte(atomNil))
    ELSE LET len == I(Len(b.b))
         IN CASE Lt(len, I(256)) ->
                    Write(e, Write(e, Write(e, wd, Byte(typeBin8)).w,
                                   Val("uint8", Conv("uint8", len))).w, Val("bytes", b.b))
              [] ~Lt(len, I(256)) /\ Lt(len, I(65536)) ->
                    Write(e, Write(e, Write(e, wd, Byte(typeBin16)).w,
                                   Val("uint16", Conv("uint16", len))).w, Val("bytes", b.b))
              [] OTHER ->
                    Write(e, Write(e, Write(e, wd, Byte(typeBin32)).w,
                                   Val("uint32", Conv("uint32", len))).w, Val("bytes", b.b))

\* a []byte argument: [isnil |-> BOOLEAN, b |-> its bytes]
EncodeBytes(e, wd, b) ==
    IF b.isnil THEN Write(e, wd, Byte(atomNil))
    ELSE LET len == I(Len(b.b))
         IN CASE Lt(len, I(256)) ->
                    Write(e, Write(e, Write(e, wd, Byte(typeBin8)).w,
                                   Val("uint8", Conv("uint8", len))).w, Val("bytes", b.b))
              [] ~Lt(len, I(256)) /\ Lt(len, I(65536)) ->
                    Write(e, Write(e, Write(e, wd, Byte(typeBin16)).w,
                                   Val("uint16", Conv("uint16", len))).w, Val("bytes", b.b))
              [] OTHER ->
                    Write(e, Write(e, Write(e, wd, Byte(typeBin32)).w,
                                   Val("uint32", Conv("uint32", len))).w, Val("bytes", b.b))

\* a float argument is its IEEE-754 bit pattern (math.Float32bits/Float64bits)
EncodeFloat32(e, wd, f) ==
    Write(e, Write(e, wd, Byte(typeFloat32)).w, Val("float32", f))

EncodeFloat64(e, wd, f) ==
    Write(e, Write(e, wd, Byte(typeFloat64)).w, Val("float64", f))

\* a string argument is the sequence of its bytes; the content is written by
\* io.WriteString straight to the sink, and its error is stored in the
\* receiver copy of EncodeString.  h is what WriteStringHeader returned.
StringContent(e, s, h) ==
    IF h.r = NoErr
    THEN LET c == SinkWrite(h.w, e.out, s)
         IN [w |-> c.w, r |-> c.r, e |-> [e EXCEPT !.err = c.r]]
    ELSE [w |-> h.w, r |-> e.err, e |-> e]

\* EncodeString with the length counted in characters (the bytes that
\* start a UTF-8 sequence) instead of bytes
EncodeString_RuneCount(e, wd, s) ==
    LET tails == Len(SelectSeq(s, LAMBDA c : c >= 128 /\ c < 192))
        len == [neg |-> FALSE,
                w |-> <<0, 0, (Len(s) - tails) \div Radix, (Len(s) - tails) % Radix>>]
    IN StringContent(e, s, WriteStringHeader(e, wd, len))

EncodeString(e, wd, s) ==
    StringContent(e, s, WriteStringHeader(e, wd, I(Len(s))))

-----------------------------------------------------------------------------
(* Encode and the container encoders *)

RECURSIVE Encode(_, _, _)
RECURSIVE ArrayItems(_, _, _, _, _)
RECURSIVE MapEntries(_, _, _, _, _, _)

\* The item encoders handed to EncodeArray ([]int items):
\*   "nil"      no function: the default, Encode(v)
\*   "int"      the function Encode passes for a []int
\*   "stop"     returns an error for every item above 1, else Encode(v)
ArrayFns == {"nil", "int", "stop"}
ItemFn(fn, e, wd, v) ==
    LET wc == [wd EXCEPT !.calls = @ + 1]
    IN CASE fn = "int" -> EncodeInt(e, wc, v)
         [] fn = "stop" /\ Lt(I(1), v) -> [w |-> wc, r |-> "e1", e |-> e]
         [] OTHER -> Encode(e, wc, Val("int", v))

\* enc.err = fn(enc, v), it being what fn returned, and on to item k + 1
ArrayNext(e, s, fn, k, it) ==
    IF it.r \in Panics THEN [w |-> it.w, r |-> it.r, e |-> e]
    ELSE ArrayItems([e EXCEPT !.err = it.r], it.w, s, fn, k + 1)

\* the loop of EncodeArray without its break on enc.err
ArrayItems_NoBreak(e, wd, s, fn, k) ==
    IF k > Len(s) THEN [w |-> wd, r |-> e.err, e |-> e]
    ELSE ArrayNext(e, s, fn, k, ItemFn(fn, e, wd, s[k]))

\* the loop of EncodeArray from item k on; e is EncodeArray's own copy
ArrayItems(e, wd, s, fn, k) ==
    IF k > Len(s) \/ e.err # NoErr THEN [w |-> wd, r |-> e.err, e |-> e]
    ELSE ArrayNext(e, s, fn, k, ItemFn(fn, e, wd, s[k]))

\* EncodeArray with a loop that starts at the second item
ArrayBody_SkipFirst(e, s, fn, h) ==
    IF h.r # NoErr THEN [w |-> h.w, r |-> h.r, e |-> e]
    ELSE ArrayItems(e, h.w, s, fn, 2)

\* h is what WriteArrayHeader returned
ArrayBody(e, s, fn, h) ==
    IF h.r # NoErr THEN [w |-> h.w, r |-> h.r, e |-> e]
    ELSE ArrayItems(e, h.w, s, fn, 1)

EncodeArray(e, wd, s, fn) ==
    ArrayBody(e, s, fn, WriteArrayHeader(e, wd, I(Len(s))))

\* The entry encoders handed to EncodeMap (map[int]int):
\*   "nil"      no function: the default, Encode(k) then Encode(v)
\*   "fail"     Encode(k), Encode(v), then returns an error
MapFns == {"nil", "fail"}
EntryValue(fn, e, v, ek) ==
    IF ek.r \in Panics THEN ek
    ELSE LET ev == Encode(e, ek.w, Val("int", v))
         IN IF fn = "nil" \/ ev.r \in Panics THEN ev
            ELSE [w |-> ev.w, r |-> "e1", e |-> e]

EntryFn(fn, e, wd, k, v) ==
    EntryValue(fn, e, v, Encode(e, [wd EXCEPT !.calls = @ + 1], Val("int", k)))

\* the loop of EncodeMap; order is the order in which range visits the keys
MapNext(e, m, order, fn, k, it) ==
    IF it.r \in Panics THEN [w |-> it.w, r |-> it.r, e |-> e]
    ELSE MapEntries([e EXCEPT !.err = it.r], it.w, m, order, fn, k + 1)

MapEntries(e, wd, m, order, fn, k) ==
    IF k > Len(order) \/ e.err # NoErr THEN [w |-> wd, r |-> e.err, e |-> e]
    ELSE MapNext(e, m, order, fn, k, EntryFn(fn, e, wd, order[k], m[order[k]]))

\* h is what WriteMapHeader returned
MapBody(e, m, order, fn, h) ==
    IF h.r # NoErr THEN [w |-> h.w, r |-> h.r, e |-> e]
    ELSE MapEntries(e, h.w, m, order, fn, 1)

EncodeMap(e, wd, m, order, fn) ==
    MapBody(e, m, order, fn, WriteMapHeader(e, wd, I(Len(order))))

\* Encode that returns the sticky error, as Write does, before it looks at
\* the type of v
Encode_StickyFirst(e, wd, v) ==
    IF e.err # NoErr THEN [w |-> wd, r |-> e.err, e |-> e]
    ELSE CASE v.t = "nil" -> Write(e, wd, Byte(atomNil))
           [] v.t = "bool" -> IF v.v THEN Write(e, wd, Byte(atomTrue))
                              ELSE Write(e, wd, Byte(atomFalse))
           [] v.t = "int" -> EncodeInt(e, wd, v.v)
           [] v.t = "int8" -> EncodeInt8(e, wd, v.v)
           [] v.t = "int16" -> EncodeInt16(e, wd, v.v)
           [] v.t = "int32" -> EncodeInt32(e, wd, v.v)
           [] v.t = "int64" -> EncodeInt64(e, wd, v.v)
           [] v.t = "uint" -> EncodeUint(e, wd, v.v)
           [] v.t = "uint8" -> EncodeUint8(e, wd, v.v)
           [] v.t = "uint16" -> EncodeUint16(e, wd, v.v)
           [] v.t = "uint32" -> EncodeUint32(e, wd, v.v)
           [] v.t = "uint64" -> EncodeUint64(e, wd, v.v)
           [] v.t = "[]int" -> EncodeArray(e, wd, v.v, "int")
           [] v.t = "string" -> EncodeString(e, wd, v.v)
           [] OTHER -> [w |-> wd, r |-> ErrUnsupportedType, e |-> e]

\* v is a value with its dynamic type: Val(t, x), t "nil", "bool", an integer
\* type, "[]int", "string", or a type Encode does not know
Encode(e, wd, v) ==
    CASE v.t = "nil" -> Write(e, wd, Byte(atomNil))
      [] v.t = "bool" -> IF v.v THEN Write(e, wd, Byte(atomTrue))
                         ELSE Write(e, wd, Byte(atomFalse))
      [] v.t = "int" -> EncodeInt(e, wd, v.v)
      [] v.t = "int8" -> EncodeInt8(e, wd, v.v)
      [] v.t = "int16" -> EncodeInt16(e, wd, v.v)
      [] v.t = "int32" -> EncodeInt32(e, wd, v.v)
      [] v.t = "int64" -> EncodeInt64(e, wd, v.v)
      [] v.t = "uint" -> EncodeUint(e, wd, v.v)
      [] v.t = "uint8" -> EncodeUint8(e, wd, v.v)
      [] v.t = "uint16" -> EncodeUint16(e, wd, v.v)
      [] v.t = "uint32" -> EncodeUint32(e, wd, v.v)
      [] v.t = "uint64" -> EncodeUint64(e, wd, v.v)
      [] v.t = "[]int" -> EncodeArray(e, wd, v.v, "int")
      [] v.t = "string" -> EncodeString(e, wd, v.v)
      [] OTHER -> [w |-> wd, r |-> ErrUnsupportedType, e |-> e]

-----------------------------------------------------------------------------
(* The session: the caller's Encoder and the calls made on it *)

NoInput == [via |-> "none"]
NoCall == [op |-> "none", pre |-> [out |-> "buf", err |-> NoErr], ret |-> NoErr,
           fnret |-> NoErr, to |-> "buf", n |-> 0, rej |-> NoErr, late |-> 0,
           wrote |-> <<>>, calls |-> 0]

\* the pool of String and its callers, in the specifications that leave
\* String alone: nothing pooled, nobody calling
NoPool == sw = {} /\ heap = <<>> /\ gs = <<>>

\* NewEncoder(buf): the session of NewTestEncoder
Init ==
    /\ enc = [out |-> "buf", err |-> NoErr]
    /\ sink = [s \in Sinks |-> <<>>]
    /\ used = 0
    /\ stack = <<>>
    /\ call = NoCall
    /\ panicking = FALSE
    /\ in = NoInput
    /\ NoPool

Top == stack[Len(stack)]
Ready == ~panicking /\ in = NoInput
CanEncode == Ready /\ used < MaxWrites

\* An encode call returns, the methods having pointer receivers: what the
\* callee assigned to the Encoder is the caller's
Returned_Captures(op, r) ==
    /\ sink' = r.w.sink
    /\ used' = used + r.w.n
    /\ call' = [op |-> op, pre |-> enc, ret |-> r.r, fnret |-> NoErr, to |-> enc.out,
                n |-> r.w.n, rej |-> r.w.rej, late |-> r.w.late, wrote |-> r.w.acc,
                calls |-> r.w.calls]
    /\ enc' = r.e
    /\ panicking' = (r.r \in Panics)
    /\ UNCHANGED <<stack, in, sw, heap, gs>>

\* An encode call returns: every encode method has a value receiver (and
\* EncodeArray/EncodeMap take the Encoder by value), so the caller's Encoder
\* is as it was, whatever the callee assigned to its copy; a panic starts
\* unwinding.
Returned(op, r) ==
    /\ sink' = r.w.sink
    /\ used' = used + r.w.n
    /\ call' = [op |-> op, pre |-> enc, ret |-> r.r, fnret |-> NoErr, to |-> enc.out,
                n |-> r.w.n, rej |-> r.w.rej, late |-> r.w.late, wrote |-> r.w.acc,
                calls |-> r.w.calls]
    /\ enc' = enc
    /\ panicking' = (r.r \in Panics)
    /\ UNCHANGED <<stack, in, sw, heap, gs>>

\* the arguments of the calls
WriteArgs == {Byte(1), Val("int16", I(256)), Val("int", I(0))}
LenArgs == {I(0), I(2), I(16)}
IntArgs(t) ==
    CASE t = "int8" -> {I(5), I(-33)}
      [] t \in SignedTypes -> {I(5), I(-33), I(200)}
      [] OTHER -> {I(5), I(200)}
FixedIntArgs == {I(5), I(-33), I(128)}
FloatArgs == {[neg |-> FALSE, w |-> <<0, 0, 16457, 4059>>]}   \* 0x40490fdb
BytesArgs == {[isnil |-> TRUE, b |-> <<>>], [isnil |-> FALSE, b |-> <<>>],
              [isnil |-> FALSE, b |-> <<1>>]}
StringArgs == {<<>>, <<97>>}
EncodeArgs == {Val("nil", I(0)), Val("bool", TRUE), Val("int", I(5)),
               Val("uint8", I(200)), Val("[]int", <<I(5)>>), Val("string", <<97>>),
               Val("struct", I(0)), Val("float32", I(0))}
ArrayArgs == {<<>>, <<I(1), I(2)>>}
MapArgs == {<<>>, <<I(1)>>}       \* the keys in range order; m[k] = k

CallWrite ==
    /\ CanEncode
    /\ \E b \in WriteArgs, plan \in Plans(1) :
          Returned("Write", Write(enc, World(plan), b))

CallWriteBytes ==
    /\ CanEncode
    /\ \E plan \in Plans(1) :
          Returned("Write", Write(enc, World(plan), Val("bytes", <<1, 2>>)))

CallWriteArrayHeader ==
    /\ CanEncode
    /\ \E len \in LenArgs, plan \in Plans(2) :
          Returned("WriteArrayHeader", WriteArrayHeader(enc, World(plan), len))

CallWriteMapHeader ==
    /\ CanEncode
    /\ \E n \in LenArgs, plan \in Plans(2) :
          Returned("WriteMapHeader", WriteMapHeader(enc, World(plan), n))

CallWriteStringHeader ==
    /\ CanEncode
    /\ \E len \in LenArgs \cup {I(32)}, plan \in Plans(2) :
          Returned("WriteStringHeader", WriteStringHeader(enc, World(plan), len))

CallEncodeBool ==
    /\ CanEncode
    /\ \E b \in BOOLEAN, plan \in Plans(1) :
          Returned("EncodeBool", EncodeBool(enc, World(plan), b))

CallEncodeFixedInt ==
    /\ CanEncode
    /\ \E i \in FixedIntArgs, plan \in Plans(1) :
          Returned("EncodeFixedInt", EncodeFixedInt(enc, World(plan), i))

CallEncodeInt8 ==
    /\ CanEncode
    /\ \E i \in IntArgs("int8"), plan \in Plans(2) :
          Returned("EncodeInt8", EncodeInt8(enc, World(plan), i))

CallEncodeInt16 ==
    /\ CanEncode
    /\ \E i \in IntArgs("int16"), plan \in Plans(2) :
          Returned("EncodeInt16", EncodeInt16(enc, World(plan), i))

CallEncodeInt32 ==
    /\ CanEncode
    /\ \E i \in IntArgs("int32"), plan \in Plans(2) :
          Returned("EncodeInt32", EncodeInt32(enc, World(plan), i))

CallEncodeInt64 ==
    /\ CanEncode
    /\ \E i \in IntArgs("int64"), plan \in Plans(2) :
          Returned("EncodeInt64", EncodeInt64(enc, World(plan), i))

CallEncodeInt ==
    /\ CanEncode
    /\ \E i \in IntArgs("int"), plan \in Plans(2) :
          Returned("EncodeInt", EncodeInt(enc, World(plan), i))

CallEncodeUint8 ==
    /\ CanEncode
    /\ \E i \in IntArgs("uint8"), plan \in Plans(2) :
          Returned("EncodeUint8", EncodeUint8(enc, World(plan), i))

CallEncodeUint16 ==
    /\ CanEncode
    /\ \E i \in IntArgs("uint16"), plan \in Plans(2) :
          Returned("EncodeUint16", EncodeUint16(enc, World(plan), i))

CallEncodeUint32 ==
    /\ CanEncode
    /\ \E i \in IntArgs("uint32"), plan \in Plans(2) :
          Returned("EncodeUint32", EncodeUint32(enc, World(plan), i))

CallEncodeUint64 ==
    /\ CanEncode
    /\ \E i \in IntArgs("uint64"), plan \in Plans(2) :
          Returned("EncodeUint64", EncodeUint64(enc, World(plan), i))

CallEncodeUint ==
    /\ CanEncode
    /\ \E i \in IntArgs("uint"), plan \in Plans(2) :
          Returned("EncodeUint", EncodeUint(enc, World(plan), i))

CallEncodeFloat32 ==
    /\ CanEncode
    /\ \E f \in FloatArgs, plan \in Plans(2) :
          Returned("EncodeFloat32", EncodeFloat32(enc, World(plan), f))

CallEncodeFloat64 ==
    /\ CanEncode
    /\ \E f \in FloatArgs, plan \in Plans(2) :
          Returned("EncodeFloat64", EncodeFloat64(enc, World(plan), f))

CallEncodeBytes ==
    /\ CanEncode
    /\ \E b \in BytesArgs, plan \in Plans(3) :
          Returned("EncodeBytes", EncodeBytes(enc, World(plan), b))

CallEncodeString ==
    /\ CanEncode
    /\ \E s \in StringArgs, plan \in Plans(2) :
          Returned("EncodeString", EncodeString(enc, World(plan), s))

CallEncode ==
    /\ CanEncode
    /\ \E v \in EncodeArgs, plan \in Plans(2) :
          Returned("Encode", Encode(enc, World(plan), v))

CallEncodeArray ==
    /\ CanEncode
    /\ \E s \in ArrayArgs, fn \in ArrayFns, plan \in Plans(3) :
          Returned("EncodeArray", EncodeArray(enc, World(plan), s, fn))

CallEncodeMap ==
    /\ CanEncode
    /\ \E order \in MapArgs, fn \in MapFns, plan \in Plans(3) :
          Returned("EncodeMap",
                   EncodeMap(enc, World(plan), [k \in {I(1)} |-> k], order, fn))

EncodeOps == {"Write", "WriteArrayHeader", "WriteMapHeader", "WriteStringHeader",
              "EncodeBool", "EncodeFixedInt", "EncodeInt8", "EncodeInt16",
              "EncodeInt32", "EncodeInt64", "EncodeInt", "EncodeUint8",
              "EncodeUint16", "EncodeUint32", "EncodeUint64", "EncodeUint",
              "EncodeFloat32", "EncodeFloat64", "EncodeBytes", "EncodeString",
              "Encode", "EncodeArray", "EncodeMap"}

\* ResetError that returns the sticky error and keeps it
ResetError_Keeps ==
    /\ Ready
    /\ enc' = enc
    /\ call' = [NoCall EXCEPT !.op = "ResetError", !.pre = enc, !.ret = enc.err,
                              !.to = enc.out]
    /\ UNCHANGED <<sink, used, stack, panicking, in, sw, heap, gs>>

\* Encoder.ResetError (pointer receiver)
ResetError ==
    /\ Ready
    /\ enc' = [enc EXCEPT !.err = NoErr]
    /\ call' = [NoCall EXCEPT !.op = "ResetError", !.pre = enc, !.ret = enc.err,
                              !.to = enc.out]
    /\ UNCHANGED <<sink, used, stack, panicking, in, sw, heap, gs>>

\* SetWriter that starts the new sink with no sticky error
SetWriter_Resets ==
    /\ Ready
    /\ \E out \in Sinks :
          /\ enc' = [out |-> out, err |-> NoErr]
          /\ stack' = IF stack = <<>> THEN stack
                      ELSE [stack EXCEPT ![Len(stack)].moved = TRUE]
          /\ call' = [NoCall EXCEPT !.op = "SetWriter", !.pre = enc, !.to = out]
    /\ UNCHANGED <<sink, used, panicking, in, sw, heap, gs>>

\* Encoder.SetWriter (pointer receiver); inside an open Using it moves the
\* session away from that call's destination
SetWriter ==
    /\ Ready
    /\ \E out \in Sinks :
          /\ enc' = [enc EXCEPT !.out = out]
          /\ stack' = IF stack = <<>> THEN stack
                      ELSE [stack EXCEPT ![Len(stack)].moved = TRUE]
          /\ call' = [NoCall EXCEPT !.op = "SetWriter", !.pre = enc, !.to = out]
    /\ UNCHANGED <<sink, used, panicking, in, sw, heap, gs>>

\* Using that calls fn without the enc.out = dest before it
UsingEnter_NoRetarget ==
    /\ Ready
    /\ Len(stack) < MaxDepth
    /\ \E dest \in Sinks :
          /\ stack' = Append(stack, [og |-> enc.out, dest |-> dest, moved |-> FALSE,
                                     was |-> enc.out])
          /\ enc' = enc
          /\ call' = [NoCall EXCEPT !.op = "Using:enter", !.pre = enc, !.to = dest]
    /\ UNCHANGED <<sink, used, panicking, in, sw, heap, gs>>

\* Encoder.Using up to the call of fn: og := enc.out; defer ...; enc.out = dest.
\* The frame also remembers, apart from og, the sink the session had at the
\* call (was), and whether fn has since moved the session to another sink.
UsingEnter ==
    /\ Ready
    /\ Len(stack) < MaxDepth
    /\ \E dest \in Sinks :
          /\ stack' = Append(stack, [og |-> enc.out, dest |-> dest, moved |-> FALSE,
                                     was |-> enc.out])
          /\ enc' = [enc EXCEPT !.out = dest]
          /\ call' = [NoCall EXCEPT !.op = "Using:enter", !.pre = enc, !.to = dest]
    /\ UNCHANGED <<sink, used, panicking, in, sw, heap, gs>>

\* Using that restores the sink the session had before the outermost open
\* Using instead of its own og
UsingReturn_ToOutermost ==
    /\ Ready
    /\ stack # <<>>
    /\ \E r \in {NoErr} \cup Errs :
          LET e1 == [enc EXCEPT !.err = r]
          IN /\ enc' = [e1 EXCEPT !.out = stack[1].og]
             /\ call' = [NoCall EXCEPT !.op = "Using", !.fnret = r, !.ret = e1.err,
                                       !.pre = [out |-> Top.was, err |-> enc.err],
                                       !.to = Top.dest]
    /\ stack' = SubSeq(stack, 1, Len(stack) - 1)
    /\ UNCHANGED <<sink, used, panicking, in, sw, heap, gs>>

\* fn returns r: enc.err = fn(); return enc.err; then the deferred enc.out = og
UsingReturn ==
    /\ Ready
    /\ stack # <<>>
    /\ \E r \in {NoErr} \cup Errs :
          LET e1 == [enc EXCEPT !.err = r]
          IN /\ enc' = [e1 EXCEPT !.out = Top.og]
             /\ call' = [NoCall EXCEPT !.op = "Using", !.fnret = r, !.ret = e1.err,
                                       !.pre = [out |-> Top.was, err |-> enc.err],
                                       !.to = Top.dest]
    /\ stack' = SubSeq(stack, 1, Len(stack) - 1)
    /\ UNCHANGED <<sink, used, panicking, in, sw, heap, gs>>

\* Using with the restore after fn() instead of deferred: a panic skips it
UsingPanic_NoRestore ==
    /\ panicking
    /\ stack # <<>>
    /\ enc' = enc
    /\ call' = [NoCall EXCEPT !.op = "Using", !.ret = call.ret,
                              !.pre = [out |-> Top.was, err |-> enc.err],
                              !.to = Top.dest]
    /\ stack' = SubSeq(stack, 1, Len(stack) - 1)
    /\ UNCHANGED <<sink, used, panicking, in, sw, heap, gs>>

\* fn panics: only the deferred enc.out = og runs, and the panic goes on to
\* the caller of Using
UsingPanic ==
    /\ panicking
    /\ stack # <<>>
    /\ enc' = [enc EXCEPT !.out = Top.og]
    /\ call' = [NoCall EXCEPT !.op = "Using", !.ret = call.ret,
                              !.pre = [out |-> Top.was, err |-> enc.err],
                              !.to = Top.dest]
    /\ stack' = SubSeq(stack, 1, Len(stack) - 1)
    /\ UNCHANGED <<sink, used, panicking, in, sw, heap, gs>>

\* the panic reaches the top of the call stack and is recovered there
Recover ==
    /\ panicking
    /\ stack = <<>>
    /\ panicking' = FALSE
    /\ UNCHANGED <<enc, sink, used, stack, call, in, sw, heap, gs>>

\* Using(dest, func() error { return r }) as one step: an fn that encodes
\* nothing
UsingCall ==
    /\ Ready
    /\ stack = <<>>
    /\ \E dest \in Sinks, r \in {NoErr} \cup Errs :
          LET og == enc.out
              e1 == [enc EXCEPT !.out = dest]
              e2 == [e1 EXCEPT !.err = r]
          IN /\ enc' = [e2 EXCEPT !.out = og]
             /\ call' = [NoCall EXCEPT !.op = "Using", !.pre = enc, !.fnret = r,
                                       !.ret = e2.err, !.to = dest]
    /\ UNCHANGED <<sink, used, stack, panicking, in, sw, heap, gs>>

\* The session protocol: the session controls around the two paths to the
\* sink (Write, and the io.WriteString of EncodeString)
Next ==
    \/ CallWrite
    \/ CallEncodeString
    \/ ResetError
    \/ SetWriter
    \/ UsingEnter
    \/ UsingReturn
    \/ UsingPanic
    \/ Recover

Spec == Init /\ [][Next]_vars

\* Every encode operation, on a session with or without a sticky error
NextOps ==
    \/ CallWrite
    \/ CallWriteBytes
    \/ CallWriteArrayHeader
    \/ CallWriteMapHeader
    \/ CallWriteStringHeader
    \/ CallEncodeBool
    \/ CallEncodeFixedInt
    \/ CallEncodeInt8
    \/ CallEncodeInt16
    \/ CallEncodeInt32
    \/ CallEncodeInt64
    \/ CallEncodeInt
    \/ CallEncodeUint8
    \/ CallEncodeUint16
    \/ CallEncodeUint32
    \/ CallEncodeUint64
    \/ CallEncodeUint
    \/ CallEncodeFloat32
    \/ CallEncodeFloat64
    \/ CallEncodeBytes
    \/ CallEncodeString
    \/ CallEncode
    \/ CallEncodeArray
    \/ CallEncodeMap
    \/ ResetError
    \/ SetWriter
    \/ UsingCall
    \/ Recover

SpecOps == Init /\ [][NextOps]_vars

-----------------------------------------------------------------------------
(* The sticky error and the session controls *)

\* C1: when the sink rejects a write made by an encode operation on a session
\* with no sticky error, the failing call returns that error and the session
\* holds it as its sticky error (so that later encode calls return it and
\* write nothing, until ResetError).
C1_ErrorCaptured ==
    (call.op \in EncodeOps /\ call.pre.err = NoErr /\ call.rej # NoErr)
        => /\ call.ret = call.rej
           /\ enc.err = call.rej

\* C2: an encode operation called on a session whose sticky error e is set
\* makes no call to the sink, so the sink receives no bytes, and, unless its
\* argument is unsupported or out of range (a panic), returns e.
C2_StickyBlocks ==
    (call.op \in EncodeOps /\ call.pre.err # NoErr)
        => /\ call.n = 0
           /\ call.wrote = <<>>
           /\ call.ret \notin Panics => call.ret = call.pre.err

\* EncodeMap, called on a session with sticky error e1, has returned e1
C2_Witness ==
    /\ call.op = "EncodeMap"
    /\ call.pre.err = "e1"
    /\ call.ret = "e1"
    /\ enc.err = "e1"

\* C3: once a sticky error is set, an encode call, a SetWriter call or a
\* Using call leaves it as it is: it is neither replaced nor cleared.
C3_FirstErrorWins ==
    (call.op \in EncodeOps \cup {"SetWriter", "Using:enter", "Using"} /\ call.pre.err # NoErr)
        => enc.err = call.pre.err

\* C4: ResetError returns the sticky error the session held and leaves the
\* session with none; the session's sink and the bytes the sinks hold stay as
\* they are; on a session with no sticky error it returns nil and changes
\* nothing, so a ResetError that follows a ResetError returns nil.
C4_ResetError ==
    [][call'.op = "ResetError"
          => /\ call'.ret = enc.err
             /\ enc'.err = NoErr
             /\ enc'.out = enc.out
             /\ sink' = sink
             /\ enc.err = NoErr => (call'.ret = NoErr /\ enc' = enc)
             /\ call.op = "ResetError" => call'.ret = NoErr]_vars

\* ResetError has returned e1 and cleared it, the bytes written before stay
C4_Witness ==
    /\ call.op = "ResetError"
    /\ call.ret = "e1"
    /\ enc.err = NoErr
    /\ sink[enc.out] # <<>>

\* C5: when Using(dest, fn) has ended - fn returned nil, fn returned an
\* error, or fn panicked - the session's sink is the sink it had immediately
\* before the call.
C5_SinkRestored ==
    call.op = "Using" => enc.out = call.pre.out

\* Using has ended by a panic of fn and the session is back on another sink
\* than dest
C5_Witness ==
    /\ call.op = "Using"
    /\ call.ret \in Panics
    /\ call.to # call.pre.out
    /\ enc.out = call.pre.out

C7_SetWriter ==
    [][/\ call'.op = "SetWriter"
            => /\ enc'.out = call'.to
               /\ enc'.err = enc.err
               /\ sink' = sink
       /\ (call.op = "SetWriter" /\ call'.op \in EncodeOps)
            => sink' = [sink EXCEPT ![call.to] = @ \o call'.wrote]]_vars

\* SetWriter has moved a session with a sticky error to another sink
C7_Witness ==
    /\ call.op = "SetWriter"
    /\ enc.err # NoErr
    /\ enc.out # call.pre.out
    /\ enc.err = call.pre.err

-----------------------------------------------------------------------------
(* One integer, one call: the integer encoders on a fresh session whose    *)
(* sink accepts every write                                                 *)

MinInt64 == [neg |-> TRUE, w |-> <<Radix \div 2, 0, 0, 0>>]
MaxInt64 == [neg |-> FALSE, w |-> <<(Radix \div 2) - 1, Radix - 1, Radix - 1, Radix - 1>>]
MaxUint64 == [neg |-> FALSE, w |-> <<Radix - 1, Radix - 1, Radix - 1, Radix - 1>>]

\* the values of Go type t
Fits(t, v) ==
    CASE t = "int8" -> Le(MinInt8, v) /\ Le(v, I(127))
      [] t = "int16" -> Le(MinInt16, v) /\ Le(v, I(32767))
      [] t = "int32" -> Le(MinInt32, v) /\ Le(v, I(2147483647))
      [] t \in {"int64", "int"} -> Le(MinInt64, v) /\ Le(v, MaxInt64)
      [] t = "uint8" -> ~v.neg /\ Le(v, MaxUint8)
      [] t = "uint16" -> ~v.neg /\ Le(v, MaxUint16)
      [] t = "uint32" -> ~v.neg /\ Le(v, MaxUint32)
      [] OTHER -> ~v.neg

\* the values where the encoders change form or a type ends
Boundaries ==
    {MinInt64, MinInt32, MinInt16, MinInt8, I(minFixedInt), I(0), I(maxFixedInt),
     MaxUint8, I(1024), I(32767), MaxUint16, I(2147483647), MaxUint32, MaxInt64,
     MaxUint64}

\* b + d, -Delta <= d <= Delta, where that is an integer of 64 bits
Shifted(b, d) ==
    IF d >= 0
    THEN LET w == AddLimbs(b.w, d, 4)
             wrapped == LimbLt(w, b.w, 1)
         IN IF b.neg THEN {[neg |-> ~wrapped, w |-> w]}
            ELSE IF wrapped THEN {} ELSE {[neg |-> FALSE, w |-> w]}
    ELSE LET w == SubLimbs(b.w, -d, 4)
             wrapped == LimbLt(b.w, w, 1)
         IN IF b.neg THEN (IF w[1] >= Radix \div 2 THEN {[neg |-> TRUE, w |-> w]} ELSE {})
            ELSE {[neg |-> wrapped, w |-> w]}

IntValues == UNION {Shifted(b, d) : b \in Boundaries, d \in (-Delta)..Delta}

\* the integer encoder of parameter type t
EncoderOf(t) ==
    CASE t = "int8" -> "EncodeInt8"
      [] t = "int16" -> "EncodeInt16"
      [] t = "int32" -> "EncodeInt32"
      [] t = "int64" -> "EncodeInt64"
      [] t = "int" -> "EncodeInt"
      [] t = "uint8" -> "EncodeUint8"
      [] t = "uint16" -> "EncodeUint16"
      [] t = "uint32" -> "EncodeUint32"
      [] t = "uint64" -> "EncodeUint64"
      [] OTHER -> "EncodeUint"

EncodeIntAs(t, e, wd, v) ==
    CASE t = "int8" -> EncodeInt8(e, wd, v)
      [] t = "int16" -> EncodeInt16(e, wd, v)
      [] t = "int32" -> EncodeInt32(e, wd, v)
      [] t = "int64" -> EncodeInt64(e, wd, v)
      [] t = "int" -> EncodeInt(e, wd, v)
      [] t = "uint8" -> EncodeUint8(e, wd, v)
      [] t = "uint16" -> EncodeUint16(e, wd, v)
      [] t = "uint32" -> EncodeUint32(e, wd, v)
      [] t = "uint64" -> EncodeUint64(e, wd, v)
      [] OTHER -> EncodeUint(e, wd, v)

IntInputs ==
    {x \in [via : {"direct", "Encode"}, t : IntTypes, v : IntValues] : Fits(x.t, x.v)}

\* a sink that accepts the (at most two) writes of an integer encoder
Accepting == [j \in 1..2 |-> "ok"]

InitInt ==
    /\ enc = [out |-> "buf", err |-> NoErr]
    /\ sink = [s \in Sinks |-> <<>>]
    /\ used = 0
    /\ stack = <<>>
    /\ call = NoCall
    /\ panicking = FALSE
    /\ in \in IntInputs
    /\ NoPool

\* enc.EncodeT(v)
IntDirect ==
    /\ in.via = "direct"
    /\ call.op = "none"
    /\ Returned(EncoderOf(in.t), EncodeIntAs(in.t, enc, World(Accepting), in.v))

\* enc.Encode(v) with v of dynamic type T
IntViaEncode ==
    /\ in.via = "Encode"
    /\ call.op = "none"
    /\ Returned("Encode", Encode(enc, World(Accepting), Val(in.t, in.v)))

NextInt ==
    \/ IntDirect
    \/ IntViaEncode

SpecInt == InitInt /\ [][NextInt]_vars

-----------------------------------------------------------------------------
(* The integer encodings *)

\* the call of the drawn integer has returned
IntDone == in # NoInput /\ call.op # "none"

\* the length of the shortest MessagePack integer format that holds v
ShortestLen(v) ==
    CASE Le(I(-32), v) /\ Le(v, I(127)) -> 1
      [] Le(I(-128), v) /\ Le(v, I(255)) -> 2
      [] Le(I(-32768), v) /\ Le(v, I(65535)) -> 3
      [] Le(I((-2147483647) - 1), v) /\ Le(v, [neg |-> FALSE, w |-> <<0, 0, 65535, 65535>>]) -> 5
      [] OTHER -> 9

\* C8: every integer encoder (EncodeInt, EncodeInt8/16/32/64, EncodeUint,
\* EncodeUint8/16/32/64), called with any value of its parameter type on a
\* session with no sticky error and an accepting sink, returns nil and writes
\* as many bytes as the shortest MessagePack integer format holding the value
\* has: 1 for -32..127, 2 for -128..-33 and 128..255, 3 for -32768..-129 and
\* 256..65535, 5 for -2^31..-32769 and 65536..2^32-1, 9 otherwise.
C8_ShortestLength ==
    (IntDone /\ in.via = "direct")
        => /\ call.ret = NoErr
           /\ sink["buf"] = call.wrote
           /\ Len(call.wrote) = ShortestLen(in.v)

\* EncodeInt32 has written 65535 in three bytes
C8_Witness ==
    /\ IntDone
    /\ call.op = "EncodeInt32"
    /\ in.v = MaxUint16
    /\ Len(sink["buf"]) = 3

\* the type of the payload a MessagePack integer tag announces
TagType(tag) ==
    CASE tag = 204 -> "uint8"       \* 0xcc
      [] tag = 205 -> "uint16"      \* 0xcd
      [] tag = 206 -> "uint32"      \* 0xce
      [] tag = 207 -> "uint64"      \* 0xcf
      [] tag = 208 -> "int8"        \* 0xd0
      [] tag = 209 -> "int16"       \* 0xd1
      [] tag = 210 -> "int32"       \* 0xd2
      [] tag = 211 -> "int64"       \* 0xd3
      [] OTHER -> "none"

\* bytes b are a tag followed by the payload that tag announces, and that
\* payload is the value v
TagMatchesPayload(b, v) ==
    LET t == TagType(b[1])
    IN /\ t # "none"
       /\ Len(b) = 1 + Width(t)
       /\ Conv(t, v) = v
       /\ SubSeq(b, 2, Len(b)) = BigEndian(v, Width(t))

\* C9: every multi-byte encoding written by an integer encoder starts with
\* the MessagePack tag of the payload that follows: 0xcc/0xcd/0xce/0xcf before
\* an unsigned payload of 1/2/4/8 bytes, 0xd0/0xd1/0xd2/0xd3 before a signed
\* payload of 1/2/4/8 bytes.
C9_TagOfPayload ==
    (IntDone /\ in.via = "direct" /\ Len(call.wrote) > 1)
        => TagMatchesPayload(call.wrote, in.v)

\* C10: for every integer value, all the integer encoders whose parameter
\* type holds the value, and Encode given the value in any of those types,
\* write the same bytes.
C10_SameBytes ==
    IntDone
        => \A t \in IntTypes :
              Fits(t, in.v)
                  => /\ EncodeIntAs(t, enc, World(Accepting), in.v).w.acc = call.wrote
                     /\ Encode(enc, World(Accepting), Val(t, in.v)).w.acc = call.wrote

-----------------------------------------------------------------------------
(* One length, one call: the header writers on a fresh session whose sink  *)
(* accepts every write                                                      *)

HeaderFamilies == {"array", "map", "string"}

\* the lengths where a header changes form
HeaderBoundaries ==
    {I(0), I(15), I(31), I(128), MaxUint8, I(1024), I(32768), MaxUint16, MaxUint32}

\* the lengths 0..2^32-1 near a boundary
HeaderLens ==
    {n \in UNION {Shifted(b, d) : b \in HeaderBoundaries, d \in (-Delta)..Delta} :
        ~n.neg /\ Le(n, MaxUint32)}

HeaderInputs == [via : {"header"}, f : HeaderFamilies, v : HeaderLens]

WriteHeader(f, e, wd, n) ==
    CASE f = "array" -> WriteArrayHeader(e, wd, n)
      [] f = "map" -> WriteMapHeader(e, wd, n)
      [] OTHER -> WriteStringHeader(e, wd, n)

InitHdr ==
    /\ enc = [out |-> "buf", err |-> NoErr]
    /\ sink = [s \in Sinks |-> <<>>]
    /\ used = 0
    /\ stack = <<>>
    /\ call = NoCall
    /\ panicking = FALSE
    /\ in \in HeaderInputs
    /\ NoPool

HdrArray ==
    /\ in.via = "header" /\ in.f = "array"
    /\ call.op = "none"
    /\ Returned("WriteArrayHeader", WriteArrayHeader(enc, World(Accepting), in.v))

HdrMap ==
    /\ in.via = "header" /\ in.f = "map"
    /\ call.op = "none"
    /\ Returned("WriteMapHeader", WriteMapHeader(enc, World(Accepting), in.v))

HdrString ==
    /\ in.via = "header" /\ in.f = "string"
    /\ call.op = "none"
    /\ Returned("WriteStringHeader", WriteStringHeader(enc, World(Accepting), in.v))

NextHdr ==
    \/ HdrArray
    \/ HdrMap
    \/ HdrString

SpecHdr == InitHdr /\ [][NextHdr]_vars

\* the call of the drawn header has returned
HdrDone == in.via = "header" /\ call.op # "none"

\* the header of the tier table: the fixed tag holds lengths up to fixmax, tag
\* t8 (0 for none) announces one byte of length, t16 two and t32 four
TierHeader(n, fix, fixmax, t8, t16, t32) ==
    CASE Le(n, I(fixmax)) -> <<fix + n.w[4]>>
      [] t8 # 0 /\ Lt(I(fixmax), n) /\ Le(n, I(255)) -> <<t8, n.w[4]>>
      [] Lt(I(IF t8 = 0 THEN fixmax ELSE 255), n) /\ Le(n, I(65535)) ->
            <<t16, n.w[4] \div 256, n.w[4] % 256>>
      [] OTHER -> <<t32, n.w[3] \div 256, n.w[3] % 256, n.w[4] \div 256, n.w[4] % 256>>

ExpectedHeader(f, n) ==
    CASE f = "array" -> TierHeader(n, 144, 15, 0, 220, 221)      \* 0x90, 0xdc, 0xdd
      [] f = "map" -> TierHeader(n, 128, 15, 0, 222, 223)        \* 0x80, 0xde, 0xdf
      [] OTHER -> TierHeader(n, 160, 31, 217, 218, 219)          \* 0xa0, 0xd9, 0xda, 0xdb

\* C11: on a session with no sticky error and an accepting sink, for a length
\* n in 0..2^32-1, WriteArrayHeader writes 0x90|n for n <= 15, 0xdc and n in
\* two big-endian bytes up to 65535, 0xdd and n in four bytes above;
\* WriteMapHeader the same with 0x80, 0xde, 0xdf; WriteStringHeader 0xa0|n for
\* n <= 31, 0xd9 and one byte up to 255, 0xda and two bytes up to 65535, 0xdb
\* and four bytes above; each returns nil.
C11_HeaderBytes ==
    HdrDone
        => /\ call.ret = NoErr
           /\ sink["buf"] = call.wrote
           /\ call.wrote = ExpectedHeader(in.f, in.v)

\* WriteStringHeader(255) has written d9 ff
C11_Witness ==
    /\ HdrDone
    /\ call.op = "WriteStringHeader"
    /\ in.v = MaxUint8
    /\ sink["buf"] = <<217, 255>>

\* the length a reader takes from header bytes b: the low bits of a fixed
\* tag, or the big-endian count after a tag
RECURSIVE BigEndianValue(_, _, _)
BigEndianValue(b, k, acc) ==
    IF k > Len(b) THEN acc
    ELSE BigEndianValue(b, k + 1,
            [neg |-> FALSE,
             w |-> <<0, 0, ((acc.w[3] * 256) % Radix) + (acc.w[4] \div 256),
                     ((acc.w[4] * 256) % Radix) + b[k]>>])

DecodeHeader(f, b) ==
    LET fix == IF f = "array" THEN 144 ELSE IF f = "map" THEN 128 ELSE 160
        span == IF f = "string" THEN 32 ELSE 16
        t16 == IF f = "array" THEN 220 ELSE IF f = "map" THEN 222 ELSE 218
    IN CASE Len(b) = 1 /\ b[1] >= fix /\ b[1] < fix + span -> I(b[1] - fix)
         [] Len(b) = 2 /\ f = "string" /\ b[1] = 217 -> BigEndianValue(b, 2, I(0))
         [] Len(b) = 3 /\ b[1] = t16 -> BigEndianValue(b, 2, I(0))
         [] Len(b) = 5 /\ b[1] = t16 + 1 -> BigEndianValue(b, 2, I(0))
         [] OTHER -> I(-1)

\* C12: for each header family and each length n in 0..2^32-1, the length
\* read back from the bytes the header writer wrote is n, and no other length
\* gives the same bytes.
C12_HeaderRoundTrip ==
    HdrDone
        => /\ DecodeHeader(in.f, call.wrote) = in.v
           /\ \A n \in HeaderLens \ {in.v} :
                 WriteHeader(in.f, enc, World(Accepting), n).w.acc # call.wrote

\* WriteArrayHeader(65536) has written a 32-bit header that reads back 65536
C12_Witness ==
    /\ HdrDone
    /\ call.op = "WriteArrayHeader"
    /\ in.v = I(65536)
    /\ Len(call.wrote) = 5
    /\ DecodeHeader("array", call.wrote) = I(65536)

-----------------------------------------------------------------------------
(* One container, one call: EncodeArray and EncodeMap on a fresh session,  *)
(* with every item encoder and a sink that accepts or rejects              *)

\* a container call makes at most this many sink writes: the header, and a
\* tag and payload, or a key and a value, per item
PlanLen == 1 + 2 * MaxItems

\* the sinks: accepting; rejecting one write with x and accepting again;
\* rejecting every write from one on
BoxPlans ==
    {[j \in 1..PlanLen |-> "ok"]}
    \cup {[j \in 1..PlanLen |-> IF j = at THEN x ELSE "ok"] : at \in 1..PlanLen, x \in Errs}
    \cup {[j \in 1..PlanLen |-> IF j >= at THEN x ELSE "ok"] : at \in 1..PlanLen, x \in Errs}

BoxItems == {I(1), I(2), I(200)}
BoxArrays == UNION {[1..n -> BoxItems] : n \in 0..MaxItems}

\* the maps {1: 1, .., n: n} and {1: 200}, each with every order in which
\* range may visit its keys
BoxMaps ==
    {[k \in {I(j) : j \in 1..n} |-> k] : n \in 0..MaxItems} \cup {[k \in {I(1)} |-> I(200)]}
Orders(m) ==
    {o \in [1..Cardinality(DOMAIN m) -> DOMAIN m] :
        \A i, j \in 1..Cardinality(DOMAIN m) : i # j => o[i] # o[j]}

BoxInputs ==
    [via : {"array"}, s : BoxArrays, fn : ArrayFns, plan : BoxPlans]
    \cup UNION {[via : {"map"}, m : {m}, order : Orders(m), fn : MapFns, plan : BoxPlans] :
                   m \in BoxMaps}

InitBox ==
    /\ enc = [out |-> "buf", err |-> NoErr]
    /\ sink = [s \in Sinks |-> <<>>]
    /\ used = 0
    /\ stack = <<>>
    /\ call = NoCall
    /\ panicking = FALSE
    /\ in \in BoxInputs
    /\ NoPool

\* EncodeArray(enc, s, fn)
BoxArray ==
    /\ in.via = "array"
    /\ call.op = "none"
    /\ Returned("EncodeArray", EncodeArray(enc, World(in.plan), in.s, in.fn))

\* EncodeMap(enc, m, fn)
BoxMap ==
    /\ in.via = "map"
    /\ call.op = "none"
    /\ Returned("EncodeMap", EncodeMap(enc, World(in.plan), in.m, in.order, in.fn))

NextBox ==
    \/ BoxArray
    \/ BoxMap

SpecBox == InitBox /\ [][NextBox]_vars

-----------------------------------------------------------------------------
(* The container encodings *)

\* the call of the drawn container has returned
BoxDone == in.via \in {"array", "map"} /\ call.op # "none"

\* the sink accepts every write
AllOk(plan) == \A j \in DOMAIN plan : plan[j] = "ok"

Fresh == [out |-> "buf", err |-> NoErr]

\* the bytes the item encoder fn writes for item v, the default (nil) being
\* Encode applied to the item
ItemBytes(fn, v) ==
    IF fn \in {"nil", "fail"} THEN Encode(Fresh, World(Accepting), Val("int", v)).w.acc
    ELSE ItemFn(fn, Fresh, World(Accepting), v).w.acc

\* the item encoder "stop" returns an error for v, having written nothing
FnFails(fn, v) == fn = "stop" /\ Lt(I(1), v)

\* the first item for which fn returns an error, 0 if there is none
FirstFail(s, fn) ==
    IF \E k \in 1..Len(s) : FnFails(fn, s[k])
    THEN CHOOSE k \in 1..Len(s) :
            FnFails(fn, s[k]) /\ \A j \in 1..(k - 1) : ~FnFails(fn, s[j])
    ELSE 0

\* the item bytes of s[k..upto], in slice order
RECURSIVE ArrayBytes(_, _, _, _)
ArrayBytes(s, fn, k, upto) ==
    IF k > upto THEN <<>>
    ELSE ItemBytes(fn, s[k]) \o ArrayBytes(s, fn, k + 1, upto)

\* key then value of the entries order[k..upto]
RECURSIVE MapBytes(_, _, _, _)
MapBytes(m, order, k, upto) ==
    IF k > upto THEN <<>>
    ELSE ItemBytes("nil", order[k]) \o ItemBytes("nil", m[order[k]])
            \o MapBytes(m, order, k + 1, upto)

\* C13: on a session with no sticky error and an accepting sink, EncodeArray
\* with an fn that fails for no item writes the array header for len(s), then
\* the bytes fn writes for each item in slice order, calls fn once per item
\* and returns nil; EncodeMap with a nil fn writes the map header for len(m),
\* then key and value of every entry by Encode, in the order range visits
\* them, once per entry, and returns nil; a nil fn writes what Encode writes;
\* an empty slice gives the byte 0x90 and an empty map the byte 0x80.
C13_ContainerBytes ==
    (BoxDone /\ AllOk(in.plan))
        => /\ (in.via = "array" /\ FirstFail(in.s, in.fn) = 0)
                => /\ call.ret = NoErr
                   /\ call.calls = Len(in.s)
                   /\ sink["buf"] = call.wrote
                   /\ call.wrote = ExpectedHeader("array", I(Len(in.s)))
                                      \o ArrayBytes(in.s, in.fn, 1, Len(in.s))
                   /\ in.s = <<>> => call.wrote = <<144>>
           /\ (in.via = "map" /\ in.fn = "nil")
                => /\ call.ret = NoErr
                   /\ call.calls = Cardinality(DOMAIN in.m)
                   /\ sink["buf"] = call.wrote
                   /\ call.wrote = ExpectedHeader("map", I(Cardinality(DOMAIN in.m)))
                                      \o MapBytes(in.m, in.order, 1, Len(in.order))
                   /\ in.order = <<>> => call.wrote = <<128>>

\* EncodeMap with a nil fn has written a map of three entries: the header and
\* three keys and values
C13_Witness ==
    /\ BoxDone
    /\ in.via = "map"
    /\ in.fn = "nil"
    /\ AllOk(in.plan)
    /\ Len(in.order) = 3
    /\ call.calls = 3
    /\ call.wrote[1] = 131
    /\ Len(call.wrote) = 7

\* C14: with an accepting sink, when fn returns an error for the k-th item
\* visited, EncodeArray and EncodeMap call fn for no later item and return
\* that error, and the sink holds the header for the full count followed by
\* only the bytes fn wrote for the k items visited.
C14_ItemFailure ==
    (BoxDone /\ AllOk(in.plan))
        => /\ (in.via = "array" /\ FirstFail(in.s, in.fn) # 0)
                => /\ call.ret = "e1"
                   /\ call.calls = FirstFail(in.s, in.fn)
                   /\ sink["buf"] = call.wrote
                   /\ call.wrote = ExpectedHeader("array", I(Len(in.s)))
                                      \o ArrayBytes(in.s, in.fn, 1, FirstFail(in.s, in.fn) - 1)
           /\ (in.via = "map" /\ in.fn = "fail" /\ in.order # <<>>)
                => /\ call.ret = "e1"
                   /\ call.calls = 1
                   /\ sink["buf"] = call.wrote
                   /\ call.wrote = ExpectedHeader("map", I(Cardinality(DOMAIN in.m)))
                                      \o MapBytes(in.m, in.order, 1, 1)

\* EncodeArray of three items, fn failing at the second without writing, has
\* left 93 01 in the sink
C14_Witness ==
    /\ BoxDone
    /\ in.via = "array"
    /\ in.fn = "stop"
    /\ in.s = <<I(1), I(2), I(1)>>
    /\ AllOk(in.plan)
    /\ call.ret = "e1"
    /\ sink["buf"] = <<147, 1>>

\* C15: when the sink rejects the header write of EncodeArray or EncodeMap,
\* the call returns that error at once: fn is not called, no further write is
\* made and no byte reaches the sink.
C15_HeaderRejected ==
    (BoxDone /\ in.plan[1] # "ok")
        => /\ call.ret = in.plan[1]
           /\ call.calls = 0
           /\ call.late = 0
           /\ call.wrote = <<>>

\* C16: when a sink write is rejected while EncodeArray or EncodeMap runs
\* with the default (nil) item encoder, the call returns an error and makes
\* no sink write after the rejected one.
C16_DefaultStops ==
    (BoxDone /\ in.fn = "nil" /\ call.rej # NoErr)
        => /\ call.ret # NoErr
           /\ call.late = 0

-----------------------------------------------------------------------------
(* Rejected writes inside one value *)

\* the encoders that write a tag or header and then a payload
TagPayloadOps ==
    {"EncodeInt8", "EncodeInt16", "EncodeInt32", "EncodeInt64", "EncodeInt",
     "EncodeUint8", "EncodeUint16", "EncodeUint32", "EncodeUint64", "EncodeUint",
     "EncodeFloat32", "EncodeFloat64", "EncodeBytes", "EncodeString"}

HeaderOps == {"WriteArrayHeader", "WriteMapHeader", "WriteStringHeader"}

\* C17: when the sink rejects the tag or header write of an encoder that
\* writes a tag or header and then a payload (the multi-byte integer forms,
\* EncodeFloat32/64, EncodeBytes, EncodeString), the encoder makes no further
\* sink write for that value.  The payload is the last write of each, so a
\* write that follows a rejected one follows a rejected tag or header write.
C17_NoPayloadAfterTag ==
    (call.op \in TagPayloadOps /\ call.pre.err = NoErr /\ call.rej # NoErr)
        => call.late = 0

\* C18: a scalar encoder or header writer, called on a session with no
\* sticky error, returns a non-nil error whenever a sink write it made was
\* rejected.
C18_RejectedReturnsError ==
    (/\ call.op \in TagPayloadOps \cup HeaderOps \cup {"EncodeBool", "EncodeFixedInt"}
     /\ call.pre.err = NoErr
     /\ call.rej # NoErr)
        => call.ret # NoErr

-----------------------------------------------------------------------------
(* One value, one call: Encode with a value of any dynamic type, on a      *)
(* session with or without a sticky error                                   *)

\* values of the types Encode knows, of float32, float64 and []byte, and of
\* two types no encoder knows
DynValues ==
    {Val("nil", I(0)), Val("bool", TRUE), Val("int", I(5)), Val("uint8", I(200)),
     Val("string", <<97>>), Val("[]int", <<I(5)>>),
     Val("float32", [neg |-> FALSE, w |-> <<0, 0, 16457, 4059>>]),             \* 0x40490fdb
     Val("float64", [neg |-> FALSE, w |-> <<16393, 8699, 23166, 53655>>]),     \* 0x400921fb5a7ed197
     Val("[]byte", [isnil |-> TRUE, b |-> <<>>]),
     Val("[]byte", [isnil |-> FALSE, b |-> <<>>]),
     Val("[]byte", [isnil |-> FALSE, b |-> <<1, 2>>]),
     Val("struct", I(0)), Val("chan", I(0))}

DynInputs == [via : {"dyn"}, val : DynValues, plan : Plans(3)]

InitDyn ==
    /\ enc = [out |-> "buf", err |-> NoErr]
    /\ sink = [s \in Sinks |-> <<>>]
    /\ used = 0
    /\ stack = <<>>
    /\ call = NoCall
    /\ panicking = FALSE
    /\ in \in DynInputs
    /\ NoPool

\* enc.Using(dest, func() error { return r }) before the call: the session
\* gets the sticky error r
DynUsing ==
    /\ in.via = "dyn"
    /\ call.op = "none"
    /\ \E dest \in Sinks, r \in Errs :
          LET og == enc.out
              e1 == [enc EXCEPT !.out = dest]
              e2 == [e1 EXCEPT !.err = r]
          IN /\ enc' = [e2 EXCEPT !.out = og]
             /\ call' = [NoCall EXCEPT !.op = "Using", !.pre = enc, !.fnret = r,
                                       !.ret = e2.err, !.to = dest]
    /\ UNCHANGED <<sink, used, stack, panicking, in, sw, heap, gs>>

\* enc.Encode(v)
DynEncode ==
    /\ in.via = "dyn"
    /\ call.op \in {"none", "Using"}
    /\ Returned("Encode", Encode(enc, World(in.plan), in.val))

NextDyn ==
    \/ DynUsing
    \/ DynEncode
    \/ Recover

SpecDyn == InitDyn /\ [][NextDyn]_vars

\* the call of Encode with the drawn value has returned or panicked
DynDone == in.via = "dyn" /\ call.op = "Encode"

\* what the encoder of the value's own type writes on an accepting sink
DirectBytes(v) ==
    CASE v.t = "float32" -> EncodeFloat32(Fresh, World(Accepting), v.v).w.acc
      [] v.t = "float64" -> EncodeFloat64(Fresh, World(Accepting), v.v).w.acc
      [] OTHER -> EncodeBytes(Fresh, World(<<"ok", "ok", "ok">>), v.v).w.acc

\* C19: Encode accepts float32, float64 and []byte values: the call does not
\* abort as an unsupported type, and on a session with no sticky error and an
\* accepting sink it writes the bytes EncodeFloat32, EncodeFloat64 or
\* EncodeBytes writes for the value.
C19_EncodeFloatsAndBytes ==
    (DynDone /\ in.val.t \in {"float32", "float64", "[]byte"})
        => /\ call.ret \notin Panics
           /\ (call.pre.err = NoErr /\ AllOk(in.plan))
                => call.wrote = DirectBytes(in.val)

\* C20: Encode of a value of a type outside its supported set (a struct, a
\* channel) panics with ErrUnsupportedType and returns no error value; no
\* sink write is made, the sinks hold what they held, and the session's sink
\* and sticky error are as before the call, set or not.
C20_UnsupportedPanics ==
    (DynDone /\ in.val.t \in {"struct", "chan"})
        => /\ call.ret = ErrUnsupportedType
           /\ call.n = 0
           /\ sink = [s \in Sinks |-> <<>>]
           /\ enc = call.pre

\* Encode(struct{}{}) has panicked on a session with the sticky error e1,
\* which is still set
C20_Witness ==
    /\ DynDone
    /\ in.val.t = "struct"
    /\ call.pre.err = "e1"
    /\ call.ret = ErrUnsupportedType
    /\ enc.err = "e1"

-----------------------------------------------------------------------------
(* One argument, one call: EncodeFixedInt, Write, EncodeBytes and           *)
(* EncodeString on a session with or without a sticky error                 *)

\* the values around the ends of the fixed range, and far from it
FixedValues ==
    UNION {Shifted(b, d) : b \in {MinInt64, I(-256), I(minFixedInt), I(0),
                                  I(maxFixedInt), I(256), MaxInt64},
                           d \in (-Delta)..Delta}

\* bit patterns, cut to the width of each type by the conversion
Patterns ==
    {I(0), I(1), I(-1), I(-33), I(200), I(258), MinInt64,
     [neg |-> FALSE, w |-> <<258, 772, 1286, 1800>>]}      \* 0x0102030405060708

\* a byte slice or string of n bytes, bytes above 127 included
Filled(n) == [k \in 1..n |-> (k * 7) % 256]

\* what Write is given: numbers of its types, byte slices, and values of
\* types outside its set
WriteValues ==
    {Val(t, Conv(t, p)) : t \in WriteTypes \ {"bytes"}, p \in Patterns}
        \cup {Val("bytes", Filled(n)) : n \in {0, 3}}
        \cup {Val("int", I(5)), Val("uint", I(5)), Val("bool", TRUE),
              Val("string", <<97>>)}

\* the lengths where the bin and str headers change form
BlobLens ==
    {n \in UNION {{b - d, b + d} : b \in {0, 31, 255, 65535}, d \in 0..Delta} : n >= 0}

PrimInputs ==
    [via : {"prim"}, op : {"EncodeFixedInt"}, val : FixedValues, plan : Plans(3)]
        \cup [via : {"prim"}, op : {"Write"}, val : WriteValues, plan : Plans(3)]
        \cup [via : {"prim"}, op : {"EncodeBytes"}, plan : Plans(3),
              val : {[isnil |-> TRUE, b |-> <<>>]}
                       \cup {[isnil |-> FALSE, b |-> Filled(n)] : n \in BlobLens}]
        \cup [via : {"prim"}, op : {"EncodeString"}, plan : Plans(3),
              val : {Filled(n) : n \in BlobLens}]

InitPrim ==
    /\ enc = [out |-> "buf", err |-> NoErr]
    /\ sink = [s \in Sinks |-> <<>>]
    /\ used = 0
    /\ stack = <<>>
    /\ call = NoCall
    /\ panicking = FALSE
    /\ in \in PrimInputs
    /\ NoPool

\* enc.Using(dest, func() error { return r }) before the call: the session
\* gets the sticky error r
PrimUsing ==
    /\ in.via = "prim"
    /\ call.op = "none"
    /\ \E dest \in Sinks, r \in Errs :
          LET og == enc.out
              e1 == [enc EXCEPT !.out = dest]
              e2 == [e1 EXCEPT !.err = r]
          IN /\ enc' = [e2 EXCEPT !.out = og]
             /\ call' = [NoCall EXCEPT !.op = "Using", !.pre = enc, !.fnret = r,
                                       !.ret = e2.err, !.to = dest]
    /\ UNCHANGED <<sink, used, stack, panicking, in, sw, heap, gs>>

\* enc.EncodeFixedInt(i)
PrimFixedInt ==
    /\ in.via = "prim" /\ in.op = "EncodeFixedInt"
    /\ call.op \in {"none", "Using"}
    /\ Returned("EncodeFixedInt", EncodeFixedInt(enc, World(in.plan), in.val))

\* enc.Write(v)
PrimWrite ==
    /\ in.via = "prim" /\ in.op = "Write"
    /\ call.op \in {"none", "Using"}
    /\ Returned("Write", Write(enc, World(in.plan), in.val))

\* enc.EncodeBytes(b)
PrimBytes ==
    /\ in.via = "prim" /\ in.op = "EncodeBytes"
    /\ call.op \in {"none", "Using"}
    /\ Returned("EncodeBytes", EncodeBytes(enc, World(in.plan), in.val))

\* enc.EncodeString(s)
PrimString ==
    /\ in.via = "prim" /\ in.op = "EncodeString"
    /\ call.op \in {"none", "Using"}
    /\ Returned("EncodeString", EncodeString(enc, World(in.plan), in.val))

NextPrim ==
    \/ PrimUsing
    \/ PrimFixedInt
    \/ PrimWrite
    \/ PrimBytes
    \/ PrimString
    \/ Recover

SpecPrim == InitPrim /\ [][NextPrim]_vars

-----------------------------------------------------------------------------
(* The primitive operations on one argument *)

\* the call of op with the drawn argument has returned or panicked
PrimDone(op) == in.via = "prim" /\ in.op = op /\ call.op = op

InFixedRange(i) == Le(I(-32), i) /\ Le(i, I(127))

\* C21: EncodeFixedInt(i) with -32 <= i <= 127 on a session with no sticky
\* error makes one write of the single byte i modulo 256; for every other i
\* it panics with ErrValueOutOfRange and writes nothing, and it does so even
\* when a sticky error is set (the range is checked first), while an
\* in-range i on a session with a sticky error returns that error.
C21_FixedIntRange ==
    PrimDone("EncodeFixedInt")
        => IF InFixedRange(in.val)
           THEN IF call.pre.err = NoErr
                THEN /\ call.n = 1
                     /\ call.ret = call.rej
                     /\ in.plan[1] = "ok" => /\ call.wrote = <<in.val.w[4] % 256>>
                                             /\ sink[enc.out] = <<in.val.w[4] % 256>>
                ELSE call.ret = call.pre.err /\ call.n = 0
           ELSE /\ call.ret = ErrValueOutOfRange
                /\ call.n = 0
                /\ sink = [s \in Sinks |-> <<>>]

\* EncodeFixedInt(128) has panicked on a session whose sticky error is e1
C21_Witness ==
    /\ PrimDone("EncodeFixedInt")
    /\ in.val = I(128)
    /\ call.pre.err = "e1"
    /\ call.ret = ErrValueOutOfRange
    /\ panicking

UnsupportedByWrite(v) == v.t \notin WriteTypes

\* C22 as stated: Write panics with ErrUnsupportedType for every value of a
\* type outside its set (int, uint, bool, ...), writing nothing, in every
\* session state, a set sticky error included.
C22_UnsupportedAlwaysPanics ==
    (PrimDone("Write") /\ UnsupportedByWrite(in.val))
        => /\ call.ret = ErrUnsupportedType
           /\ call.n = 0
           /\ sink = [s \in Sinks |-> <<>>]

\* C22 amended: Write of a value of a type outside its set writes nothing;
\* on a session with no sticky error it panics with ErrUnsupportedType, and
\* on a session with a sticky error it returns that error without a panic
\* (the sticky error is looked at before the type).
C22_UnsupportedPanicsUnlessSticky ==
    (PrimDone("Write") /\ UnsupportedByWrite(in.val))
        => /\ call.n = 0
           /\ sink = [s \in Sinks |-> <<>>]
           /\ call.ret = IF call.pre.err = NoErr THEN ErrUnsupportedType
                         ELSE call.pre.err

\* Write(int(5)) has returned the sticky error e1 of its session
C22_Witness ==
    /\ PrimDone("Write")
    /\ in.val = Val("int", I(5))
    /\ call.pre.err = "e1"
    /\ call.ret = "e1"
    /\ ~panicking

\* the limbs of the number that n = 1, 2, 4 or 8 bytes spell, most
\* significant byte first
LimbsOf(b) ==
    CASE Len(b) = 1 -> <<b[1]>>
      [] Len(b) = 2 -> <<(b[1] * 256) + b[2]>>
      [] Len(b) = 4 -> <<(b[1] * 256) + b[2], (b[3] * 256) + b[4]>>
      [] Len(b) = 8 -> <<(b[1] * 256) + b[2], (b[3] * 256) + b[4],
                         (b[5] * 256) + b[6], (b[7] * 256) + b[8]>>
      [] OTHER -> <<>>

\* the low n bytes of the two's-complement pattern of v, as limbs
LowLimbs(v, n) ==
    CASE n = 1 -> <<v.w[4] % 256>>
      [] n = 2 -> <<v.w[4]>>
      [] n = 4 -> <<v.w[3], v.w[4]>>
      [] OTHER -> v.w

\* C23: on a session with no sticky error, Write(v) for a v of a supported
\* type makes exactly one write call on the sink; what it hands over is the
\* whole value: Width(type) bytes spelling the two's-complement pattern of a
\* number most significant byte first (1, 2, 4 or 8 bytes), and the slice
\* itself for a []byte.
C23_WriteBigEndian ==
    (PrimDone("Write") /\ ~UnsupportedByWrite(in.val) /\ call.pre.err = NoErr)
        => /\ call.n = 1
           /\ call.ret = call.rej
           /\ in.plan[1] = "ok" =>
                /\ sink[enc.out] = call.wrote
                /\ IF in.val.t = "bytes" THEN call.wrote = in.val.v
                   ELSE /\ Len(call.wrote) = Width(in.val.t)
                        /\ Width(in.val.t) =
                              CASE in.val.t \in {"uint8", "int8"} -> 1
                                [] in.val.t \in {"int16", "uint16"} -> 2
                                [] in.val.t \in {"int32", "uint32", "float32"} -> 4
                                [] OTHER -> 8
                        /\ LimbsOf(call.wrote) = LowLimbs(in.val.v, Len(call.wrote))

\* Write(int16(-33)) has written ff df in one call
C23_Witness ==
    /\ PrimDone("Write")
    /\ in.val = Val("int16", I(-33))
    /\ call.n = 1
    /\ call.ret = NoErr
    /\ sink["buf"] = <<255, 223>>

\* the session had no sticky error and the sink accepted every write
CleanRun == call.pre.err = NoErr /\ AllOk(in.plan)

\* the bin header for a slice of n bytes
BinHeader(n) ==
    IF n < 256 THEN <<196, n>>
    ELSE IF n < 65536 THEN <<197, n \div 256, n % 256>>
    ELSE <<198, n \div 16777216, (n \div 65536) % 256, (n \div 256) % 256, n % 256>>

\* C24: EncodeBytes(b) on a session with no sticky error and an accepting
\* sink writes the nil atom c0 for a nil b, and otherwise c4 len (len < 256),
\* c5 and len in 2 bytes (len < 65536) or c6 and len in 4 bytes, followed by
\* the bytes of b; an empty slice that is not nil gives c4 00.
C24_BytesEncoding ==
    (PrimDone("EncodeBytes") /\ CleanRun)
        => /\ call.ret = NoErr
           /\ sink[enc.out] = call.wrote
           /\ call.wrote = IF in.val.isnil THEN <<192>>
                           ELSE BinHeader(Len(in.val.b)) \o in.val.b

\* EncodeBytes([]byte{}) has written c4 00
C24_Witness ==
    /\ PrimDone("EncodeBytes")
    /\ CleanRun
    /\ in.val = [isnil |-> FALSE, b |-> <<>>]
    /\ sink["buf"] = <<196, 0>>

\* the str header for a string of n bytes
StrHeader(n) ==
    IF n < 32 THEN <<160 + n>>
    ELSE IF n < 256 THEN <<217, n>>
    ELSE IF n < 65536 THEN <<218, n \div 256, n % 256>>
    ELSE <<219, n \div 16777216, (n \div 65536) % 256, (n \div 256) % 256, n % 256>>

\* C25: EncodeString(s) on a session with no sticky error and an accepting
\* sink writes the string header for the number of bytes of s, then those
\* bytes, and returns nil; a string of 32 bytes gives d9 20 and its bytes.
C25_StringEncoding ==
    (PrimDone("EncodeString") /\ CleanRun)
        => /\ call.ret = NoErr
           /\ sink[enc.out] = call.wrote
           /\ call.wrote = StrHeader(Len(in.val)) \o in.val

\* EncodeString of a 32-byte string has written d9 20 and the 32 bytes
C25_Witness ==
    /\ PrimDone("EncodeString")
    /\ CleanRun
    /\ Len(in.val) = 32
    /\ Len(sink["buf"]) = 34
    /\ SubSeq(sink["buf"], 1, 2) = <<217, 32>>
    /\ SubSeq(sink["buf"], 3, 34) = in.val

-----------------------------------------------------------------------------
(* String: the pool sw of Encoders over scratch buffers, and goroutines    *)
(* that call String concurrently                                            *)

PoolStrings == {<<>>, <<97>>, <<98, 99>>}
NoResult == [has |-> FALSE, of |-> <<>>, alias |-> FALSE, b |-> <<>>, id |-> 0]

\* a goroutine: pc its position in String, s the argument, e the Encoder it
\* took from the pool, res the slice its last completed call returned, n the
\* calls it has made
InitPool ==
    /\ enc = [out |-> "buf", err |-> NoErr]
    /\ sink = [x \in Sinks |-> <<>>]
    /\ used = 0
    /\ stack = <<>>
    /\ call = NoCall
    /\ panicking = FALSE
    /\ in = [via |-> "pool"]
    /\ sw = {}
    /\ heap = <<>>
    /\ gs = [g \in 1..MaxGo |-> [pc |-> "idle", s |-> <<>>, e |-> 0,
                                   res |-> NoResult, n |-> 0]]

\* the calls of String made so far by goroutines 1..k
RECURSIVE CallsMade(_)
CallsMade(k) == IF k = 0 THEN 0 ELSE gs[k].n + CallsMade(k - 1)

\* enc := sw.Get().(*Encoder) with an idle Encoder in another goroutine's
\* hands as well: Get hands it out and leaves it in the pool
StrGet_Shared ==
    /\ in.via = "pool"
    /\ \E g \in 1..MaxGo, s \in PoolStrings :
          /\ gs[g].pc = "idle"
          /\ CallsMade(MaxGo) < MaxCalls
          /\ \/ \E id \in sw :
                   /\ gs' = [gs EXCEPT ![g].pc = "got", ![g].s = s, ![g].e = id,
                                       ![g].n = @ + 1]
                   /\ UNCHANGED <<sw, heap>>
             \/ /\ Len(heap) < MaxGo
                /\ heap' = Append(heap, [buf |-> <<>>, err |-> NoErr])
                /\ gs' = [gs EXCEPT ![g].pc = "got", ![g].s = s,
                                    ![g].e = Len(heap) + 1, ![g].n = @ + 1]
                /\ sw' = sw \cup {Len(heap) + 1}
    /\ UNCHANGED <<enc, sink, used, stack, call, panicking, in>>

\* String(s) is called; enc := sw.Get().(*Encoder): Get takes an idle Encoder
\* out of the pool, or makes one with New (which a sync.Pool may do even
\* when it holds idle ones); defer sw.Put(enc)
StrGet ==
    /\ in.via = "pool"
    /\ \E g \in 1..MaxGo, s \in PoolStrings :
          /\ gs[g].pc = "idle"
          /\ CallsMade(MaxGo) < MaxCalls
          /\ \/ \E id \in sw :
                   /\ sw' = sw \ {id}
                   /\ gs' = [gs EXCEPT ![g].pc = "got", ![g].s = s, ![g].e = id,
                                       ![g].n = @ + 1]
                   /\ UNCHANGED heap
             \/ /\ Len(heap) < MaxGo
                /\ heap' = Append(heap, [buf |-> <<>>, err |-> NoErr])
                /\ gs' = [gs EXCEPT ![g].pc = "got", ![g].s = s,
                                    ![g].e = Len(heap) + 1, ![g].n = @ + 1]
                /\ UNCHANGED sw
    /\ UNCHANGED <<enc, sink, used, stack, call, panicking, in>>

\* buf := enc.out.(*bytes.Buffer); buf.Reset()
StrReset ==
    /\ in.via = "pool"
    /\ \E g \in 1..MaxGo :
          /\ gs[g].pc = "got"
          /\ heap' = [heap EXCEPT ![gs[g].e].buf = <<>>]
          /\ gs' = [gs EXCEPT ![g].pc = "reset"]
    /\ UNCHANGED sw
    /\ UNCHANGED <<enc, sink, used, stack, call, panicking, in>>

\* _ = enc.EncodeString(s): the pooled Encoder is copied into the receiver,
\* the bytes go to its buffer (a bytes.Buffer accepts every write), the
\* returned error and the receiver copy are dropped
StrEncode ==
    /\ in.via = "pool"
    /\ \E g \in 1..MaxGo :
          /\ gs[g].pc = "reset"
          /\ LET id == gs[g].e
                 wd == [sink |-> [i \in DOMAIN heap |-> heap[i].buf],
                        plan |-> <<"ok", "ok">>, n |-> 0, rej |-> NoErr, late |-> 0,
                        acc |-> <<>>, calls |-> 0]
                 r == EncodeString([out |-> id, err |-> heap[id].err], wd, gs[g].s)
             IN heap' = [heap EXCEPT ![id].buf = r.w.sink[id]]
          /\ gs' = [gs EXCEPT ![g].pc = "encoded"]
    /\ UNCHANGED sw
    /\ UNCHANGED <<enc, sink, used, stack, call, panicking, in>>

\* return buf.Bytes(): the returned slice is the buffer's own memory
StrCopy_Alias ==
    /\ in.via = "pool"
    /\ \E g \in 1..MaxGo :
          /\ gs[g].pc = "encoded"
          /\ gs' = [gs EXCEPT ![g].pc = "copied",
                              ![g].res = [has |-> TRUE, of |-> gs[g].s, alias |-> TRUE,
                                          b |-> <<>>, id |-> gs[g].e]]
    /\ UNCHANGED <<sw, heap>>
    /\ UNCHANGED <<enc, sink, used, stack, call, panicking, in>>

\* return append([]byte{}, buf.Bytes()...): the returned slice is a copy
StrCopy ==
    /\ in.via = "pool"
    /\ \E g \in 1..MaxGo :
          /\ gs[g].pc = "encoded"
          /\ gs' = [gs EXCEPT ![g].pc = "copied",
                              ![g].res = [has |-> TRUE, of |-> gs[g].s, alias |-> FALSE,
                                          b |-> heap[gs[g].e].buf, id |-> 0]]
    /\ UNCHANGED <<sw, heap>>
    /\ UNCHANGED <<enc, sink, used, stack, call, panicking, in>>

\* the deferred sw.Put(enc) runs and String returns
StrPut ==
    /\ in.via = "pool"
    /\ \E g \in 1..MaxGo :
          /\ gs[g].pc = "copied"
          /\ sw' = sw \cup {gs[g].e}
          /\ gs' = [gs EXCEPT ![g].pc = "idle", ![g].e = 0]
    /\ UNCHANGED heap
    /\ UNCHANGED <<enc, sink, used, stack, call, panicking, in>>

NextPool ==
    \/ StrGet
    \/ StrReset
    \/ StrEncode
    \/ StrCopy
    \/ StrPut

SpecPool == InitPool /\ [][NextPool]_vars

-----------------------------------------------------------------------------
(* String and its pool *)

\* the bytes of the slice a call of String returned, as they are now
ResultBytes(r) == IF r.alias THEN heap[r.id].buf ELSE r.b

\* C26: the slice a call String(s) returned holds exactly the bytes
\* EncodeString(s) writes to an empty buffer, whatever calls of String came
\* before, run at the same time or come later: no byte of another call's
\* argument is in it and no later call changes it.
C26_StringResult ==
    \A g \in DOMAIN gs :
        gs[g].res.has
            => ResultBytes(gs[g].res)
                 = EncodeString(Fresh, World(Accepting), gs[g].res.of).w.acc

\* goroutine 1 holds the result of its second call, for "a", made with an
\* Encoder that served another call before, while goroutine 2 is in the
\* middle of a call for "bc"
C26_Witness ==
    /\ in.via = "pool"
    /\ gs[1].n = 2
    /\ gs[1].pc = "idle"
    /\ gs[1].res = [has |-> TRUE, of |-> <<97>>, alias |-> FALSE, b |-> <<161, 97>>,
                    id |-> 0]
    /\ gs[2].pc = "encoded"
    /\ gs[2].s = <<98, 99>>
    /\ Len(heap) = 1

\* C27: an Encoder that sits idle in the pool has an empty buffer and no
\* sticky error (it is reset before it is handed back, and before reuse).
C27_IdleIsReset ==
    \A id \in sw : heap[id].buf = <<>> /\ heap[id].err = NoErr

-----------------------------------------------------------------------------
(* What changes a session *)

-----------------------------------------------------------------------------
(* Reading the integers back *)

\* a is b or a beginning of b
IsPrefix(a, b) == Len(a) <= Len(b) /\ SubSeq(b, 1, Len(a)) = a

\* the bytes the encoder of x.t writes for x.v
IntBytes(x) == EncodeIntAs(x.t, Fresh, World(Accepting), x.v).w.acc

\* C29: the bytes written for an integer are not the bytes written for any
\* other integer value, by any integer encoder, nor a beginning of them, nor
\* do those begin them: a reader can tell from the first byte how many bytes
\* follow and which value was written.
C29_UniquelyDecodable ==
    (IntDone /\ in.via = "direct")
        => \A x \in IntInputs :
              (x.via = "direct" /\ x.v # in.v)
                  => /\ ~IsPrefix(IntBytes(x), call.wrote)
                     /\ ~IsPrefix(call.wrote, IntBytes(x))

-----------------------------------------------------------------------------
(* Nested Using calls whose fns write *)

\* enc.Write(b) by the code running at the current depth of Using calls: the
\* byte written tells the depth (0 outside every Using); Write(int(0)) panics
NestWrite ==
    /\ Ready
    /\ used < MaxNested
    /\ \E b \in {Byte(Len(stack)), Val("int", I(0))}, plan \in Plans(1) :
          Returned("Write", Write(enc, World(plan), b))

NextNest ==
    \/ NestWrite
    \/ UsingEnter
    \/ UsingReturn
    \/ UsingPanic
    \/ Recover

SpecNest == Init /\ [][NextNest]_vars

\* C30: Using calls nest.  A Using entered inside the fn of another moves
\* the session to its own dest, where the bytes encoded inside it go; the
\* Using calls end innermost first, each giving the session back the sink it
\* had when that call began, so that the bytes the outer fn encodes after
\* the inner call go to the outer dest, and after the outermost call the
\* session has the sink it had before it.
C30_UsingNests ==
    [][/\ (call'.op \in EncodeOps /\ stack # <<>>)
            => sink' = [sink EXCEPT ![Top.dest] = @ \o call'.wrote]
       /\ Len(stack') > Len(stack)
            => /\ SubSeq(stack', 1, Len(stack)) = stack
               /\ stack'[Len(stack')].was = enc.out
               /\ enc'.out = stack'[Len(stack')].dest
       /\ Len(stack') < Len(stack)
            => /\ stack' = SubSeq(stack, 1, Len(stack) - 1)
               /\ enc'.out = Top.was
               /\ stack' # <<>> => enc'.out = stack'[Len(stack')].dest]_vars

\* inside Using(other, ...) an inner Using(buf, ...) has run, its fn wrote
\* the byte 2 to buf, and after it the outer fn has written the byte 1, which
\* is in other
C30_Witness ==
    /\ Len(stack) = 1
    /\ stack[1].dest = "other"
    /\ call.op = "Write"
    /\ call.wrote = <<1>>
    /\ sink["other"] = <<1>>
    /\ sink["buf"] = <<2>>

====
